---- MODULE Spec2Model ----
(***************************************************************************)
(* Backtest engine of ospedin/WEB (ml/backtest.py, class BacktestEngine)   *)
(* together with the rule-based signal generator it calls                  *)
(* (api/indicators.py, TechnicalIndicators).                               *)
(*                                                                         *)
(* Units.  Prices are integers counted in eighths of a currency unit, so   *)
(* a contract tick of 0.25 is 2 price units; money is counted in whole     *)
(* currency units; confidences are written in thousandths (0.70 = 700)     *)
(* and carried in 840ths of a thousandth, so that the mean of up to eight   *)
(* of them is an integer.                                                  *)
(* On these dyadic values every float operation of the engine is exact,    *)
(* so integer arithmetic is what the code computes.  The float rounding    *)
(* of the P&L conversion on non-dyadic tick sizes is modelled apart, in    *)
(* the SpecPnl specification, with a binary floating-point format of a     *)
(* few significand bits in place of binary64.                              *)
(***************************************************************************)
EXTENDS Integers, Sequences, FiniteSets, TLC

\* ------------------------------------------------------------------ bounds
\* Longest bar series the loader returns.
MaxBars == 6
\* window_size of run(): 100 in the source, scaled down for model checking.
WindowSize == 2
\* sma_fast and sma_slow of calculate_moving_averages (20 and 50 in the
\* source), scaled with the window: as in the source the window of
\* window_size + 1 bars is longer than sma_slow, so that the last two values
\* of both averages are means and not the leading fill.  generate_signal
\* wants at least sma_slow bars (50 in the source).
SmaFast == 1
SmaSlow == WindowSize
MinSignalBars == SmaSlow
\* The floating-point format of SpecPnl: significand bits (53 in binary64)
\* and the binary places of the smallest step.
Precision == 8
FracBits == 8
\* Largest |k| of the exits P + k * tick_size tried by SpecPnl.
MaxK == 3
\* Longest bar series an indicator function is called on in SpecIndicators.
MaxShortBars == 3
\* Length of the rising series of SpecUptrend (200 bars in the scenario).
UptrendBars == 8
\* SpecAggregate: most 1-minute bars in a series, minutes in a day (1440 in
\* a calendar day) and the largest timeframe in minutes.
MaxMinuteBars == 3
MaxTimeframe == 3
DayMinutes == MaxTimeframe + 1
\* SpecVolume: most bars in a series.
MaxVolumeBars == 3
\* SpecEnv: most bars of an episode of the training environment.
MaxEnvBars == 4
\* SpecStats: most trades in a log.
MaxTrades == 4
\* The initial balance of SpecPnl, in currency units.
BalanceScale == 128
\* Most indicators enabled at once in SpecVotes (8 in the source).
MaxEnabled == 3

\* ------------------------------------------------------- program constants
DefaultMaxPositions == 3
DefaultStopLossUsd == 150
DefaultTpRatio == 2
DefaultMinConfidence == 700
InitialBalance == 100000
GoldenCrossConfidence == 800
BotBaseConfidence == 750
BotConfidenceFloor == 700
BotConfidenceCap == 950
BotConfidenceSlope == 250

\* A confidence given in thousandths, in the unit confidences are carried
\* in: the least common multiple of 1..8 to a thousandth.
ConfidenceUnit == 8 * 7 * 5 * 3
Confidence(thousandths) == thousandths * ConfidenceUnit

\* Python's None.
None == [none |-> TRUE]

Min(a, b) == IF a < b THEN a ELSE b

\* ------------------------------------------------------------------ inputs
\* Contract row: tick_size 0.25 (2 price units), tick_value 50.
Contracts == {[tick_size |-> 2, tick_value |-> 50]}

\* Bars the loader can return, without their timestamp: a narrow bar, a bar
\* whose low spikes down, one whose high spikes up and one whose range spans
\* every stop and target.
BarShapes ==
    { [low |-> 22, high |-> 22, close |-> 22],
      [low |->  8, high |-> 20, close |-> 20],
      [low |-> 22, high |-> 40, close |-> 22],
      [low |->  8, high |-> 40, close |-> 20] }

\* The loader orders by time: the bar at Python index k carries timestamp k.
Stamp(shapes) ==
    [k \in 1..Len(shapes) |->
        [timestamp |-> k - 1, low |-> shapes[k].low,
         high |-> shapes[k].high, close |-> shapes[k].close]]

\* The bars before index window_size only feed the averages (their close):
\* they are drawn from the two shapes that differ in their close.
WarmupShapes == {sh \in BarShapes : sh.high = sh.close}

BarSeries ==
    UNION { { Stamp(s) : s \in { t \in [1..n -> BarShapes] :
                                  \A k \in 1..Min(n, WindowSize) :
                                      t[k] \in WarmupShapes } } :
            n \in 0..MaxBars }

\* Contract rows no exchange lists: a tick size of zero, a tick value of zero
\* and a negative tick size.  The columns are plain floats, nothing in the
\* schema excludes them.
InvalidContracts ==
    { [tick_size |-> 0, tick_value |-> 50],
      [tick_size |-> 2, tick_value |-> 0],
      [tick_size |-> 0 - 2, tick_value |-> 50] }

\* The timeframes argument of the constructor, in minutes.
Timeframes == { << 1 >> }
NoTimeframes == << >>

\* ContractBotConfig rows.
BotConfigOne ==
    [max_positions |-> 1, stop_loss_usd |-> 100, take_profit_ratio |-> 2,
     min_confidence |-> 700]
BotConfigTwo ==
    [max_positions |-> 2, stop_loss_usd |-> 100, take_profit_ratio |-> 3,
     min_confidence |-> 700]
BotConfigs == {BotConfigOne, BotConfigTwo}

\* ContractIndicatorConfig rows (moving averages enabled, the other
\* indicators disabled).
IndicatorConfigLow == [use_ma |-> TRUE, min_confidence |-> 700]
IndicatorConfigHigh == [use_ma |-> TRUE, min_confidence |-> 900]
IndicatorConfigs == {IndicatorConfigLow, IndicatorConfigHigh}

\* The injected policy model: predict(observation) is deterministic; the
\* stubs return one fixed decoded action (position_size in thousandths).
LongPolicy ==
    [action_type |-> 0, position_size |-> 1000, sl_multiplier |-> 1,
     tp_multiplier |-> 3]
ShortPolicy ==
    [action_type |-> 1, position_size |-> 200, sl_multiplier |-> 2,
     tp_multiplier |-> 1]
FlatPolicy ==
    [action_type |-> 2, position_size |-> 0, sl_multiplier |-> 1,
     tp_multiplier |-> 1]
Policies == {LongPolicy, ShortPolicy, FlatPolicy}

\* A model whose inference raises on the windows that end on a close of 20
\* and answers LONG on the others.
FaultyPolicy ==
    [action_type |-> 0, position_size |-> 1000, sl_multiplier |-> 1,
     tp_multiplier |-> 3, raises_on |-> {20}]

Modes == {"bot_only", "bot_indicators", "indicators_only"}

\* What the constructor is given: the mode, the policy PPO.load returns (None
\* without a model path or when loading fails) and the two configuration rows
\* (None without an id).
Configuration(m, policy, bc, ic) ==
    [mode |-> m, loaded |-> policy, bot_config |-> bc, indicator_config |-> ic]

Configurations ==
    { Configuration("indicators_only", None, None, IndicatorConfigLow),
      Configuration("indicators_only", LongPolicy, BotConfigOne, IndicatorConfigHigh),
      Configuration("indicators_only", None, BotConfigTwo, None),
      Configuration("bot_only", LongPolicy, None, None),
      Configuration("bot_only", ShortPolicy, BotConfigTwo, None),
      Configuration("bot_only", FlatPolicy, BotConfigOne, None),
      Configuration("bot_only", None, None, None),
      Configuration("bot_indicators", LongPolicy, BotConfigOne, IndicatorConfigLow),
      Configuration("bot_indicators", ShortPolicy, None, IndicatorConfigLow),
      Configuration("bot_indicators", None, None, IndicatorConfigLow),
      Configuration("bot_indicators", LongPolicy, BotConfigTwo, None) }

\* --------------------------------------------------- indicators.py (rules)
\* A mean is kept as the fraction num/den; fractions are compared by cross
\* multiplication (den > 0).
Frac(n, d) == [num |-> n, den |-> d]
FracLT(a, b) == a.num * b.den < b.num * a.den
FracLE(a, b) == a.num * b.den <= b.num * a.den

RECURSIVE SumRange(_, _, _)
SumRange(data, a, b) == IF a > b THEN 0 ELSE data[a] + SumRange(data, a + 1, b)

\* calculate_sma: the input itself when shorter than the period; otherwise the
\* trailing mean, the leading entries filled with the first valid mean.
calculate_sma(data, period) ==
    IF Len(data) < period
    THEN [k \in 1..Len(data) |-> Frac(data[k], 1)]
    ELSE [k \in 1..Len(data) |->
            LET e == IF k < period THEN period ELSE k
            IN  Frac(SumRange(data, e - period + 1, e), period)]

calculate_moving_averages(window) ==
    LET closes == [k \in 1..Len(window) |-> window[k].close]
    IN  [sma_fast |-> calculate_sma(closes, SmaFast),
         sma_slow |-> calculate_sma(closes, SmaSlow)]

\* A mutant for C15: the rule votes on the side of the fast average, with
\* no crossing.
MovingAverageVotesTrend(window) ==
    LET ma == calculate_moving_averages(window)
        n == Len(window)
    IN  IF FracLT(ma.sma_slow[n], ma.sma_fast[n])
        THEN << [signal |-> "LONG", confidence |-> Confidence(GoldenCrossConfidence),
                 reason |-> "Golden Cross (SMA)"] >>
        ELSE IF FracLT(ma.sma_fast[n], ma.sma_slow[n])
        THEN << [signal |-> "SHORT", confidence |-> Confidence(GoldenCrossConfidence),
                 reason |-> "Death Cross (SMA)"] >>
        ELSE << >>

\* The vote of the moving-average rule: Golden Cross / Death Cross on the
\* last two values of the two SMA series.
MovingAverageVotes(window) ==
    LET ma == calculate_moving_averages(window)
        n == Len(window)
        sma_fast == ma.sma_fast[n]
        sma_slow == ma.sma_slow[n]
        prev_sma_fast == ma.sma_fast[n - 1]
        prev_sma_slow == ma.sma_slow[n - 1]
    IN  IF FracLE(prev_sma_fast, prev_sma_slow) /\ FracLT(sma_slow, sma_fast)
        THEN << [signal |-> "LONG", confidence |-> Confidence(GoldenCrossConfidence),
                 reason |-> "Golden Cross (SMA)"] >>
        ELSE IF FracLE(prev_sma_slow, prev_sma_fast) /\ FracLT(sma_fast, sma_slow)
        THEN << [signal |-> "SHORT", confidence |-> Confidence(GoldenCrossConfidence),
                 reason |-> "Death Cross (SMA)"] >>
        ELSE << >>

RECURSIVE SumConfidence(_, _)
SumConfidence(votes, side) ==
    IF votes = << >> THEN 0
    ELSE (IF Head(votes).signal = side THEN Head(votes).confidence ELSE 0)
         + SumConfidence(Tail(votes), side)

CountVotes(votes, side) ==
    Cardinality({k \in 1..Len(votes) : votes[k].signal = side})

\* The reasons of the votes for one side, in order (the code joins them
\* with " + ").
RECURSIVE Reasons(_, _)
Reasons(votes, side) ==
    IF votes = << >> THEN << >>
    ELSE (IF Head(votes).signal = side THEN << Head(votes).reason >> ELSE << >>)
         \o Reasons(Tail(votes), side)

\* A mutant for C17: a tie goes to LONG.
FinalSignalTieLong(votes) ==
    LET long_count == CountVotes(votes, "LONG")
        short_count == CountVotes(votes, "SHORT")
    IN  IF votes = << >>
        THEN [signal |-> "NEUTRAL", confidence |-> 0,
              reason |-> << "Sin senales claras" >>]
        ELSE IF long_count >= short_count
        THEN [signal |-> "LONG",
              confidence |-> SumConfidence(votes, "LONG") \div long_count,
              reason |-> Reasons(votes, "LONG")]
        ELSE [signal |-> "SHORT",
              confidence |-> SumConfidence(votes, "SHORT") \div short_count,
              reason |-> Reasons(votes, "SHORT")]

\* The end of generate_signal: majority of the votes, confidence the mean
\* over the winning side.
FinalSignal(votes) ==
    LET long_count == CountVotes(votes, "LONG")
        short_count == CountVotes(votes, "SHORT")
    IN  IF votes = << >>
        THEN [signal |-> "NEUTRAL", confidence |-> 0,
              reason |-> << "Sin senales claras" >>]
        ELSE IF long_count > short_count
        THEN [signal |-> "LONG",
              confidence |-> SumConfidence(votes, "LONG") \div long_count,
              reason |-> Reasons(votes, "LONG")]
        ELSE IF short_count > long_count
        THEN [signal |-> "SHORT",
              confidence |-> SumConfidence(votes, "SHORT") \div short_count,
              reason |-> Reasons(votes, "SHORT")]
        ELSE [signal |-> "NEUTRAL", confidence |-> 0, reason |-> << >>]

\* generate_signal with the enabled indicators of the configuration.
generate_signal(window, cfg) ==
    IF Len(window) < MinSignalBars
    THEN [signal |-> "NEUTRAL", confidence |-> 0,
          reason |-> << "Datos insuficientes" >>]
    ELSE FinalSignal(IF cfg.use_ma THEN MovingAverageVotes(window) ELSE << >>)

\* ------------------------------------------------ backtest.py (the engine)
VARIABLES
    mode,              \* self.mode
    model,             \* self.model: the loaded policy, or None
    bot_config,        \* self.bot_config: a ContractBotConfig row, or None
    indicator_config,  \* self.indicator_config: a row, or None
    contract,          \* self.contract
    timeframes,        \* self.timeframes
    bars,              \* the bars run() loaded
    i,                 \* loop index of run() (Python index into bars)
    pc,                \* position of run()
    signal,            \* the signal of the current iteration
    positions,         \* self.positions
    trades,            \* self.trades
    balance,           \* self.balance
    peak_balance,      \* self.peak_balance
    max_drawdown,      \* self.max_drawdown
    equity_curve,      \* self.equity_curve
    results,           \* what run() returns
    conv,              \* SpecPnl: one position and its close in float arithmetic
    engines,           \* SpecPair: two BacktestEngine instances
    call               \* SpecIndicators: one call of an indicator function

config == << mode, model, bot_config, indicator_config, contract, timeframes >>
ledger == << positions, trades, balance, peak_balance, max_drawdown, equity_curve >>
vars == << mode, model, bot_config, indicator_config, contract, timeframes,
           bars, i, pc,
           signal, positions, trades, balance, peak_balance, max_drawdown,
           equity_curve, results, conv, engines, call >>

\* datetime.isoformat(): the text form of a timestamp.
isoformat(t) == [iso |-> t]

\* bars[k] with Python's 0-based index.
BarAt(bs, k) == bs[k + 1]

\* A mutant for C1: the window reaches one bar past the current one.
WindowBarsAhead(bs, k) == SubSeq(bs, k - WindowSize + 1, Min(k + 2, Len(bs)))

\* window_bars = bars[i - window_size : i + 1]
WindowBars(bs, k) == SubSeq(bs, k - WindowSize + 1, k + 1)

NeutralSignal == [signal |-> "NEUTRAL", confidence |-> 0]

\* What an inference that raises leaves in place of the decoded action.
InferenceError == [exception |-> "Exception"]

\* TradingEnv(...), reset(), model.predict(observation, deterministic=True)
\* and decode_action: the decoded action, or the exception raised.
Predict(policy, window) ==
    IF "raises_on" \in DOMAIN policy
       /\ window[Len(window)].close \in policy.raises_on
    THEN InferenceError
    ELSE policy

\* The signal built from a decoded action.
SignalOf(decoded_action) ==
    LET sig == IF decoded_action.action_type = 0 THEN "LONG"
               ELSE IF decoded_action.action_type = 1 THEN "SHORT"
               ELSE "NEUTRAL"
        confidence ==
            IF sig # "NEUTRAL"
            THEN Confidence(
                     Min(BotConfidenceCap,
                         BotConfidenceFloor
                         + (decoded_action.position_size * BotConfidenceSlope)
                           \div 1000))
            ELSE Confidence(BotBaseConfidence)
    IN  [signal |-> sig, confidence |-> confidence, source |-> "RL_MODEL",
         position_size |-> decoded_action.position_size,
         sl_multiplier |-> decoded_action.sl_multiplier,
         tp_multiplier |-> decoded_action.tp_multiplier]

\* A mutant for C21: a failed inference answers with the model's action.
generate_bot_signal_unguarded(policy, window) ==
    IF policy = None THEN None
    ELSE SignalOf(policy)

\* _generate_bot_signal
generate_bot_signal(policy, window) ==
    IF policy = None THEN None
    ELSE
      LET decoded_action == Predict(policy, window)
      IN  \* except Exception: return None
          IF decoded_action = InferenceError THEN None
          ELSE SignalOf(decoded_action)

\* _generate_indicator_signal
generate_indicator_signal(cfg, window) ==
    IF cfg = None THEN None
    ELSE
      LET signal_result == generate_signal(window, cfg)
      IN  [signal |-> signal_result.signal,
           confidence |-> signal_result.confidence,
           source |-> "INDICATORS", reason |-> signal_result.reason]

\* A mutant for C16: one non-neutral signal is enough.
CombineSignalsEither(bot_signal, ind_signal) ==
    IF bot_signal # None /\ bot_signal.signal # "NEUTRAL"
    THEN [signal |-> bot_signal.signal, confidence |-> bot_signal.confidence,
          source |-> "BOT_AND_INDICATORS"]
    ELSE IF ind_signal # None /\ ind_signal.signal # "NEUTRAL"
    THEN [signal |-> ind_signal.signal, confidence |-> ind_signal.confidence,
          source |-> "BOT_AND_INDICATORS"]
    ELSE NeutralSignal

\* A mutant for C32: the agreed signal carries the multipliers of the model.
CombineSignalsWithMultipliers(bot_signal, ind_signal) ==
    IF bot_signal # None /\ ind_signal # None
       /\ bot_signal.signal = ind_signal.signal /\ bot_signal.signal # "NEUTRAL"
    THEN [signal |-> bot_signal.signal,
          confidence |-> (bot_signal.confidence + ind_signal.confidence) \div 2,
          source |-> "BOT_AND_INDICATORS",
          bot_signal |-> bot_signal, indicator_signal |-> ind_signal,
          sl_multiplier |-> bot_signal.sl_multiplier,
          tp_multiplier |-> bot_signal.tp_multiplier]
    ELSE NeutralSignal

\* The combination of _generate_signals_parallel in mode bot_indicators.
CombineSignals(bot_signal, ind_signal) ==
    IF bot_signal # None /\ ind_signal # None
       /\ bot_signal.signal = ind_signal.signal /\ bot_signal.signal # "NEUTRAL"
    THEN [signal |-> bot_signal.signal,
          confidence |-> (bot_signal.confidence + ind_signal.confidence) \div 2,
          source |-> "BOT_AND_INDICATORS",
          bot_signal |-> bot_signal, indicator_signal |-> ind_signal]
    ELSE NeutralSignal

\* _generate_signals_parallel
generate_signals_parallel(m, policy, cfg, window) ==
    IF m = "bot_only"
    THEN LET r == generate_bot_signal(policy, window)
         IN  IF r # None THEN r ELSE NeutralSignal
    ELSE IF m = "indicators_only"
    THEN LET r == generate_indicator_signal(cfg, window)
         IN  IF r # None THEN r ELSE NeutralSignal
    ELSE IF m = "bot_indicators"
    THEN CombineSignals(generate_bot_signal(policy, window),
                        generate_indicator_signal(cfg, window))
    ELSE NeutralSignal

\* The engine's ledger as one value, for the operations that update it;
\* raised tells that the operation ended by raising an exception.
Ledger(ps, ts, b, pk, dd, eq) ==
    [positions |-> ps, trades |-> ts, balance |-> b, peak_balance |-> pk,
     max_drawdown |-> dd, equity_curve |-> eq, raised |-> FALSE]

OpenCount(ps) == Cardinality({k \in 1..Len(ps) : ps[k].status = "OPEN"})

\* max_positions of _open_position
MaxPositions(bc) == IF bc # None THEN bc.max_positions ELSE DefaultMaxPositions

\* A mutant for C2: the limit test lets one position too many through.
AtLimitOffByOne(ps, bc) == OpenCount(ps) > MaxPositions(bc)

\* The limit test of _open_position.
AtLimit(ps, bc) == OpenCount(ps) >= MaxPositions(bc)

\* _open_position
open_position(st, sig, current_bar, bc, ct) ==
    IF sig.signal \notin {"LONG", "SHORT"} THEN st
    ELSE IF AtLimit(st.positions, bc) THEN st
    \* stop_loss_usd / self.contract.tick_value raises ZeroDivisionError
    ELSE IF ct.tick_value = 0 THEN [st EXCEPT !.raised = TRUE]
    ELSE
      LET sl_multiplier ==
              IF "sl_multiplier" \in DOMAIN sig THEN sig.sl_multiplier ELSE 1
          stop_loss_usd ==
              (IF bc # None THEN bc.stop_loss_usd ELSE DefaultStopLossUsd)
              * sl_multiplier
          tp_ratio == IF bc # None THEN bc.take_profit_ratio ELSE DefaultTpRatio
          tp_multiplier ==
              IF "tp_multiplier" \in DOMAIN sig THEN sig.tp_multiplier ELSE tp_ratio
          ticks_sl == stop_loss_usd \div ct.tick_value
          distance_sl == ticks_sl * ct.tick_size
          stop_loss == IF sig.signal = "LONG"
                       THEN current_bar.close - distance_sl
                       ELSE current_bar.close + distance_sl
          take_profit == IF sig.signal = "LONG"
                         THEN current_bar.close + distance_sl * tp_multiplier
                         ELSE current_bar.close - distance_sl * tp_multiplier
          position ==
              [side |-> sig.signal, quantity |-> 1,
               entry_price |-> current_bar.close,
               entry_time |-> current_bar.timestamp,
               stop_loss |-> stop_loss, take_profit |-> take_profit,
               status |-> "OPEN",
               signal_source |-> IF "source" \in DOMAIN sig THEN sig.source
                                 ELSE "UNKNOWN"]
      IN  [st EXCEPT !.positions = Append(@, position)]

\* The P&L conversion of _close_position.
Ticks(side, entry_price, exit_price, tick_size) ==
    IF side = "LONG"
    THEN (exit_price - entry_price) \div tick_size
    ELSE (entry_price - exit_price) \div tick_size

Pnl(ticks, tick_value, quantity) == ticks * tick_value * quantity

\* A mutant for C20: the close moves the stop of the position to the exit.
close_position_moves_stop(st, p, exit_price, exit_time, reason, ct) ==
    LET position == st.positions[p]
        closed == [status |-> "CLOSED", exit_price |-> exit_price,
                   exit_time |-> exit_time, exit_reason |-> reason,
                   stop_loss |-> exit_price] @@ position
    IN
    \* the position is stamped, then the division by tick_size raises
    IF ct.tick_size = 0
    THEN [st EXCEPT !.positions[p] = closed, !.raised = TRUE]
    ELSE
    LET ticks == Ticks(position.side, position.entry_price, exit_price, ct.tick_size)
        pnl == Pnl(ticks, ct.tick_value, position.quantity)
        trade == [side |-> position.side,
                  entry_price |-> position.entry_price,
                  exit_price |-> exit_price,
                  entry_time |-> position.entry_time,
                  exit_time |-> exit_time,
                  stop_loss |-> position.stop_loss,
                  take_profit |-> position.take_profit,
                  pnl |-> pnl, ticks |-> ticks, exit_reason |-> reason,
                  signal_source |-> position.signal_source]
        new_balance == st.balance + pnl
        drawdown == st.peak_balance - new_balance
    IN  [positions |-> [st.positions EXCEPT ![p] = closed],
         trades |-> Append(st.trades, trade),
         balance |-> new_balance,
         equity_curve |-> Append(st.equity_curve,
                                 [timestamp |-> isoformat(exit_time),
                                  balance |-> new_balance, pnl |-> pnl]),
         peak_balance |-> IF new_balance > st.peak_balance
                          THEN new_balance ELSE st.peak_balance,
         max_drawdown |-> IF new_balance > st.peak_balance THEN st.max_drawdown
                          ELSE IF drawdown > st.max_drawdown THEN drawdown
                          ELSE st.max_drawdown,
         raised |-> FALSE]

\* A mutant for C24: max_drawdown is the drawdown of the last close.
close_position_last_drawdown(st, p, exit_price, exit_time, reason, ct) ==
    LET position == st.positions[p]
        closed == [status |-> "CLOSED", exit_price |-> exit_price,
                   exit_time |-> exit_time, exit_reason |-> reason] @@ position
    IN
    \* the position is stamped, then the division by tick_size raises
    IF ct.tick_size = 0
    THEN [st EXCEPT !.positions[p] = closed, !.raised = TRUE]
    ELSE
    LET ticks == Ticks(position.side, position.entry_price, exit_price, ct.tick_size)
        pnl == Pnl(ticks, ct.tick_value, position.quantity)
        trade == [side |-> position.side,
                  entry_price |-> position.entry_price,
                  exit_price |-> exit_price,
                  entry_time |-> position.entry_time,
                  exit_time |-> exit_time,
                  stop_loss |-> position.stop_loss,
                  take_profit |-> position.take_profit,
                  pnl |-> pnl, ticks |-> ticks, exit_reason |-> reason,
                  signal_source |-> position.signal_source]
        new_balance == st.balance + pnl
        drawdown == st.peak_balance - new_balance
    IN  [positions |-> [st.positions EXCEPT ![p] = closed],
         trades |-> Append(st.trades, trade),
         balance |-> new_balance,
         equity_curve |-> Append(st.equity_curve,
                                 [timestamp |-> isoformat(exit_time),
                                  balance |-> new_balance, pnl |-> pnl]),
         peak_balance |-> IF new_balance > st.peak_balance
                          THEN new_balance ELSE st.peak_balance,
         max_drawdown |-> IF new_balance > st.peak_balance THEN st.max_drawdown
                          ELSE drawdown,
         raised |-> FALSE]

\* _close_position, of the position at index p of self.positions
close_position(st, p, exit_price, exit_time, reason, ct) ==
    LET position == st.positions[p]
        closed == [status |-> "CLOSED", exit_price |-> exit_price,
                   exit_time |-> exit_time, exit_reason |-> reason] @@ position
    IN
    \* the position is stamped, then the division by tick_size raises
    IF ct.tick_size = 0
    THEN [st EXCEPT !.positions[p] = closed, !.raised = TRUE]
    ELSE
    LET ticks == Ticks(position.side, position.entry_price, exit_price, ct.tick_size)
        pnl == Pnl(ticks, ct.tick_value, position.quantity)
        trade == [side |-> position.side,
                  entry_price |-> position.entry_price,
                  exit_price |-> exit_price,
                  entry_time |-> position.entry_time,
                  exit_time |-> exit_time,
                  stop_loss |-> position.stop_loss,
                  take_profit |-> position.take_profit,
                  pnl |-> pnl, ticks |-> ticks, exit_reason |-> reason,
                  signal_source |-> position.signal_source]
        new_balance == st.balance + pnl
        drawdown == st.peak_balance - new_balance
    IN  [positions |-> [st.positions EXCEPT ![p] = closed],
         trades |-> Append(st.trades, trade),
         balance |-> new_balance,
         equity_curve |-> Append(st.equity_curve,
                                 [timestamp |-> isoformat(exit_time),
                                  balance |-> new_balance, pnl |-> pnl]),
         peak_balance |-> IF new_balance > st.peak_balance
                          THEN new_balance ELSE st.peak_balance,
         max_drawdown |-> IF new_balance > st.peak_balance THEN st.max_drawdown
                          ELSE IF drawdown > st.max_drawdown THEN drawdown
                          ELSE st.max_drawdown,
         raised |-> FALSE]

\* A mutant for C6: the take-profit test comes first.
ExitDecisionTargetFirst(position, current_bar) ==
    IF position.side = "LONG"
    THEN IF current_bar.high >= position.take_profit
         THEN [exit_reason |-> "TAKE_PROFIT", exit_price |-> position.take_profit]
         ELSE IF current_bar.low <= position.stop_loss
         THEN [exit_reason |-> "STOP_LOSS", exit_price |-> position.stop_loss]
         ELSE None
    ELSE IF current_bar.low <= position.take_profit
         THEN [exit_reason |-> "TAKE_PROFIT", exit_price |-> position.take_profit]
         ELSE IF current_bar.high >= position.stop_loss
         THEN [exit_reason |-> "STOP_LOSS", exit_price |-> position.stop_loss]
         ELSE None

\* The exit decision of _check_position_exits for one open position:
\* << reason, price >>, or None when the bar triggers neither level.
ExitDecision(position, current_bar) ==
    IF position.side = "LONG"
    THEN IF current_bar.low <= position.stop_loss
         THEN [exit_reason |-> "STOP_LOSS", exit_price |-> position.stop_loss]
         ELSE IF current_bar.high >= position.take_profit
         THEN [exit_reason |-> "TAKE_PROFIT", exit_price |-> position.take_profit]
         ELSE None
    ELSE IF current_bar.high >= position.stop_loss
         THEN [exit_reason |-> "STOP_LOSS", exit_price |-> position.stop_loss]
         ELSE IF current_bar.low <= position.take_profit
         THEN [exit_reason |-> "TAKE_PROFIT", exit_price |-> position.take_profit]
         ELSE None

\* A mutant for C19: the loop looks at the closed positions as well.
RECURSIVE check_position_exits_again(_, _, _, _)
check_position_exits_again(st, p, current_bar, ct) ==
    IF p > Len(st.positions) \/ st.raised THEN st
    ELSE
      LET position == st.positions[p]
          d == ExitDecision(position, current_bar)
          next == IF d # None
                  THEN close_position(st, p, d.exit_price, current_bar.timestamp,
                                      d.exit_reason, ct)
                  ELSE st
      IN  check_position_exits_again(next, p + 1, current_bar, ct)

\* _check_position_exits: the loop over self.positions from index p on.
RECURSIVE check_position_exits_from(_, _, _, _)
check_position_exits_from(st, p, current_bar, ct) ==
    IF p > Len(st.positions) \/ st.raised THEN st
    ELSE
      LET position == st.positions[p]
          d == IF position.status = "OPEN"
               THEN ExitDecision(position, current_bar) ELSE None
          next == IF d # None
                  THEN close_position(st, p, d.exit_price, current_bar.timestamp,
                                      d.exit_reason, ct)
                  ELSE st
      IN  check_position_exits_from(next, p + 1, current_bar, ct)

check_position_exits(st, current_bar, ct) ==
    check_position_exits_from(st, 1, current_bar, ct)

\* The reason run() gives to the positions it closes after the loop.
EndReason == "END_OF_BACKTEST"

\* A mutant for C4: the bar before the final one.
FinalExitPrevious(bs) ==
    LET k == IF Len(bs) > 1 THEN Len(bs) - 1 ELSE 1
    IN  [price |-> bs[k].close, time |-> bs[k].timestamp]

\* Price and time run() closes the remaining positions at.
FinalExit(bs) == [price |-> bs[Len(bs)].close, time |-> bs[Len(bs)].timestamp]

\* The closing loop at the end of run(), from index p on.
RECURSIVE close_open_positions_from(_, _, _, _)
close_open_positions_from(st, p, bs, ct) ==
    IF p > Len(st.positions) \/ st.raised THEN st
    ELSE
      LET next == IF st.positions[p].status = "OPEN"
                  THEN close_position(st, p, FinalExit(bs).price,
                                      FinalExit(bs).time, EndReason, ct)
                  ELSE st
      IN  close_open_positions_from(next, p + 1, bs, ct)

\* A mutant for C3: the closing loop stops after the first position.
close_open_positions_first(st, bs, ct) ==
    IF st.positions # << >> /\ st.positions[1].status = "OPEN"
    THEN close_position(st, 1, FinalExit(bs).price, FinalExit(bs).time,
                        EndReason, ct)
    ELSE st

close_open_positions(st, bs, ct) == close_open_positions_from(st, 1, bs, ct)

\* min_confidence of run()
MinConfidence(ic, bc) ==
    IF ic # None THEN Confidence(ic.min_confidence)
    ELSE IF bc # None THEN Confidence(bc.min_confidence)
    ELSE Confidence(DefaultMinConfidence)

\* Results are floats; a quotient is kept as the fraction num/den, and
\* float('inf') as Infinity.
Infinity == Frac(1, 0)
Zero == Frac(0, 1)

RECURSIVE SumPnl(_)
SumPnl(ts) == IF ts = << >> THEN 0 ELSE Head(ts).pnl + SumPnl(Tail(ts))

Abs(x) == IF x < 0 THEN -x ELSE x

\* A mutant for C9: no gross loss reports zero.
ProfitFactorZero(gross_profit, gross_loss) ==
    IF gross_loss > 0 THEN Frac(gross_profit, gross_loss) ELSE Zero

\* The profit factor of _calculate_results for a non-empty trade log.
ProfitFactor(gross_profit, gross_loss) ==
    IF gross_loss > 0 THEN Frac(gross_profit, gross_loss) ELSE Infinity

\* _calculate_results
calculate_results(st) ==
    IF st.trades = << >>
    THEN [total_trades |-> 0, winning_trades |-> 0, losing_trades |-> 0,
          total_pnl |-> 0, win_rate |-> Zero, profit_factor |-> Zero,
          max_drawdown |-> 0, final_balance |-> st.balance, trades |-> << >>]
    ELSE
      LET winning_trades == SelectSeq(st.trades, LAMBDA t : t.pnl > 0)
          losing_trades == SelectSeq(st.trades, LAMBDA t : t.pnl < 0)
          gross_profit == SumPnl(winning_trades)
          gross_loss == Abs(SumPnl(losing_trades))
      IN  [total_trades |-> Len(st.trades),
           winning_trades |-> Len(winning_trades),
           losing_trades |-> Len(losing_trades),
           total_pnl |-> SumPnl(st.trades),
           gross_profit |-> gross_profit,
           gross_loss |-> gross_loss,
           win_rate |-> Frac(Len(winning_trades), Len(st.trades)),
           profit_factor |-> ProfitFactor(gross_profit, gross_loss),
           max_drawdown |-> st.max_drawdown,
           initial_balance |-> InitialBalance,
           final_balance |-> st.balance,
           trades |-> st.trades,
           equity_curve |-> st.equity_curve]

\* ----------------------------------------------------------- the run
CurrentLedger ==
    Ledger(positions, trades, balance, peak_balance, max_drawdown, equity_curve)

SetLedger(st) ==
    /\ positions' = st.positions
    /\ trades' = st.trades
    /\ balance' = st.balance
    /\ peak_balance' = st.peak_balance
    /\ max_drawdown' = st.max_drawdown
    /\ equity_curve' = st.equity_curve

\* The model the constructor keeps: loaded only in the two bot modes.
LoadedModel(c) ==
    IF c.mode \in {"bot_only", "bot_indicators"} THEN c.loaded ELSE None

\* The engine after __init__ with the configuration c, the contract row ct
\* and the timeframes tf.
ConstructedWith(c, ct, tf) ==
    /\ mode = c.mode
    /\ model = LoadedModel(c)
    /\ bot_config = c.bot_config
    /\ indicator_config = c.indicator_config
    /\ contract = ct
    /\ timeframes = tf
    /\ bars = << >>
    /\ i = 0
    /\ pc = "start"
    /\ signal = None
    /\ positions = << >>
    /\ trades = << >>
    /\ balance = InitialBalance
    /\ peak_balance = InitialBalance
    /\ max_drawdown = 0
    /\ equity_curve = << >>
    /\ results = None

Constructed(c) ==
    \E ct \in Contracts, tf \in Timeframes : ConstructedWith(c, ct, tf)

\* __init__
Init ==
    /\ \E c \in Configurations : Constructed(c)
    /\ conv = None
    /\ engines = None
    /\ call = None

\* Where run() is after an operation: out with the exception it raised, or
\* at the next statement.
Raised(st, next) == IF st.raised THEN "error" ELSE next

\* A mutant for C29: the loop stops one bar early.
LoopAtBeforeLast(bs, k) == IF k < Len(bs) - 1 THEN "signal" ELSE "close"

\* Where the loop of run() goes with index k: into its body, or past it.
LoopAt(bs, k) == IF k < Len(bs) THEN "signal" ELSE "close"

\* A mutant for C25: the first point carries the timestamp of the last bar.
InitialPointAtEnd(bs) ==
    [timestamp |-> isoformat(BarAt(bs, Len(bs) - 1).timestamp),
     balance |-> InitialBalance, pnl |-> 0]

\* The first point of the equity curve.
InitialPoint(bs) ==
    [timestamp |-> isoformat(BarAt(bs, 0).timestamp),
     balance |-> InitialBalance, pnl |-> 0]

\* A mutant for C8: the emptiness check is missing.
load_outcome_unchecked(bs, eq) ==
    [pc |-> LoopAt(bs, WindowSize), i |-> WindowSize,
     equity_curve |-> IF bs = << >> THEN eq ELSE Append(eq, InitialPoint(bs))]

\* A mutant for C31: a series that fills no window is a data error too.
load_outcome_needs_window(bs, eq) ==
    IF Len(bs) <= WindowSize
    THEN [pc |-> "error", i |-> 0, equity_curve |-> eq]
    ELSE [pc |-> LoopAt(bs, WindowSize), i |-> WindowSize,
          equity_curve |-> Append(eq, InitialPoint(bs))]

\* run() up to the loop: no bars raises ValueError; otherwise the initial
\* equity point is recorded and the loop starts at window_size.
load_outcome(bs, eq) ==
    IF bs = << >>
    THEN [pc |-> "error", i |-> 0, equity_curve |-> eq]
    ELSE [pc |-> LoopAt(bs, WindowSize), i |-> WindowSize,
          equity_curve |-> Append(eq, InitialPoint(bs))]

\* run(): bars = self._load_bars_for_timeframe(main_timeframe) and what
\* follows it before the loop.
LoadBarsOf(stored) ==
    /\ pc = "start"
    /\ IF timeframes = << >>
       \* min(self.timeframes) raises ValueError
       THEN pc' = "error" /\ UNCHANGED << bars, i, equity_curve >>
       ELSE \E bs \in stored :
              /\ bars' = bs
              /\ pc' = load_outcome(bs, equity_curve).pc
              /\ i' = load_outcome(bs, equity_curve).i
              /\ equity_curve' = load_outcome(bs, equity_curve).equity_curve
    /\ UNCHANGED << config, signal, positions, trades, balance, peak_balance,
                    max_drawdown, results, conv, engines, call >>

LoadBars == LoadBarsOf(BarSeries)

\* run(): signal = await self._generate_signals_parallel(window_bars)
GenerateSignals ==
    /\ pc = "signal"
    /\ signal' = generate_signals_parallel(mode, model, indicator_config,
                                           WindowBars(bars, i))
    /\ pc' = "exits"
    /\ UNCHANGED << config, bars, i, ledger, results, conv, engines, call >>

\* run(): self._check_position_exits(current_bar)
CheckPositionExits ==
    /\ pc = "exits"
    /\ LET st == check_position_exits(CurrentLedger, BarAt(bars, i), contract)
       IN  SetLedger(st) /\ pc' = Raised(st, "open")
    /\ UNCHANGED << config, bars, i, signal, results, conv, engines, call >>

\* A mutant for C7: the exit check runs after the entry as well.
EntryThenExits(st, sig, current_bar, ic, bc, ct) ==
    check_position_exits(
        IF sig.confidence >= MinConfidence(ic, bc)
        THEN open_position(st, sig, current_bar, bc, ct) ELSE st,
        current_bar, ct)

\* A mutant for C18: the entry ignores the confidence of the signal.
EntryDecisionAnyConfidence(st, sig, current_bar, ic, bc, ct) ==
    open_position(st, sig, current_bar, bc, ct)

\* The ledger after the entry decision of one iteration.
EntryDecision(st, sig, current_bar, ic, bc, ct) ==
    IF sig.confidence >= MinConfidence(ic, bc)
    THEN open_position(st, sig, current_bar, bc, ct)
    ELSE st

\* run(): the confidence test and self._open_position, then the next index.
OpenPosition ==
    /\ pc = "open"
    /\ LET st == EntryDecision(CurrentLedger, signal, BarAt(bars, i),
                               indicator_config, bot_config, contract)
       IN  /\ SetLedger(st)
           /\ i' = IF st.raised THEN i ELSE i + 1
           /\ pc' = Raised(st, LoopAt(bars, i + 1))
    /\ UNCHANGED << config, bars, signal, results, conv, engines, call >>

\* run(): close the positions still open after the loop.
CloseOpenPositions ==
    /\ pc = "close"
    /\ LET st == close_open_positions(CurrentLedger, bars, contract)
       IN  SetLedger(st) /\ pc' = Raised(st, "results")
    /\ UNCHANGED << config, bars, i, signal, results, conv, engines, call >>

\* run(): results = self._calculate_results(); return results
CalculateResults ==
    /\ pc = "results"
    /\ results' = calculate_results(CurrentLedger)
    /\ pc' = "done"
    /\ UNCHANGED << config, bars, i, signal, ledger, conv, engines, call >>

Next ==
    \/ LoadBars
    \/ GenerateSignals
    \/ CheckPositionExits
    \/ OpenPosition
    \/ CloseOpenPositions
    \/ CalculateResults

Spec == Init /\ [][Next]_vars

\* The run as the event loop drives it: run() is awaited to its end, so the
\* statement it is at completes and control moves on.  Every step of FairNext
\* moves pc and FairNext can step wherever pc is not final (NeverStuck), so
\* fairness of Proceeds is weak fairness of FairNext.
RunPositions ==
    {"start", "signal", "exits", "open", "close", "results", "done", "error"}

Proceeds == pc \notin {"done", "error"} /\ pc' \in RunPositions \ {pc}

FairSeries ==
    UNION { { Stamp(s) : s \in [1..n -> WarmupShapes] } : n \in 0..MaxBars }

FairNext ==
    \/ LoadBarsOf(FairSeries)
    \/ GenerateSignals
    \/ CheckPositionExits
    \/ OpenPosition
    \/ CloseOpenPositions
    \/ CalculateResults

FairSpec == Init /\ [][FairNext]_vars /\ WF_pc(Proceeds)

\* The run with its final positions as steps that change nothing: a state
\* without a successor would be a statement of run() that cannot execute.
Returned_or_Raised == pc \in {"done", "error"} /\ UNCHANGED vars

NeverStuck == Init /\ [][FairNext \/ Returned_or_Raised]_vars

\* ------------------------------ the two branches of a step (SpecBranches)
\* _generate_signals_parallel step by step: the tasks it builds for the
\* mode, each task finishing on its own, and the combination of what
\* asyncio.gather returns once all have finished.
Tasks(m) ==
    (IF m \in {"bot_only", "bot_indicators"} THEN << "bot" >> ELSE << >>)
    \o (IF m \in {"indicators_only", "bot_indicators"}
        THEN << "indicators" >> ELSE << >>)

\* A mutant for C28: the results come in the order the tasks finished.
GatherAsCompleted(tasks, order, finished) ==
    [k \in 1..Len(tasks) |-> finished[order[k]]]

\* asyncio.gather(*tasks): the results in the order of the tasks.
Gather(tasks, order, finished) ==
    [k \in 1..Len(tasks) |-> finished[tasks[k]]]

\* The combination of the gathered results according to the mode.
CombineResults(m, gathered) ==
    IF m \in {"bot_only", "indicators_only"}
    THEN IF gathered[1] # None THEN gathered[1] ELSE NeutralSignal
    ELSE IF m = "bot_indicators"
    THEN CombineSignals(IF Len(gathered) > 0 THEN gathered[1] ELSE None,
                        IF Len(gathered) > 1 THEN gathered[2] ELSE None)
    ELSE NeutralSignal

\* tasks.append(...) for the mode, up to the await.
StartTasks ==
    /\ pc = "signal"
    /\ call' = [stage |-> "gather", tasks |-> Tasks(mode), order |-> << >>,
                finished |-> << >>]
    /\ pc' = "gather"
    /\ UNCHANGED << config, bars, i, signal, ledger, results, conv, engines >>

Pending(name) ==
    /\ pc = "gather"
    /\ \E k \in 1..Len(call.tasks) : call.tasks[k] = name
    /\ name \notin DOMAIN call.finished

Finish(name, result) ==
    /\ call' = [call EXCEPT !.order = Append(@, name),
                            !.finished = (name :> result) @@ @]
    /\ UNCHANGED << config, bars, i, pc, signal, ledger, results, conv,
                    engines >>

\* The task of _generate_bot_signal finishes.
BotBranch ==
    /\ Pending("bot")
    /\ Finish("bot", generate_bot_signal(model, WindowBars(bars, i)))

\* The task of _generate_indicator_signal finishes.
IndicatorBranch ==
    /\ Pending("indicators")
    /\ Finish("indicators",
              generate_indicator_signal(indicator_config, WindowBars(bars, i)))

\* results = await asyncio.gather(*tasks) returns, and the combination.
CombineBranches ==
    /\ pc = "gather"
    /\ Len(call.order) = Len(call.tasks)
    /\ signal' = CombineResults(mode, Gather(call.tasks, call.order,
                                             call.finished))
    /\ call' = [call EXCEPT !.stage = "combined"]
    /\ pc' = "exits"
    /\ UNCHANGED << config, bars, i, ledger, results, conv, engines >>

BranchesNext ==
    \/ LoadBars
    \/ StartTasks
    \/ BotBranch
    \/ IndicatorBranch
    \/ CombineBranches
    \/ CheckPositionExits
    \/ OpenPosition
    \/ CloseOpenPositions
    \/ CalculateResults

SpecBranches == Init /\ [][BranchesNext]_vars

\* ------------------------------------- invalid configurations (SpecConfig)
\* The constructor validates neither the contract row nor the timeframes:
\* SpecConfig starts the same run from the engines it builds out of a
\* contract row with a non-positive tick or out of an empty timeframe list.
ConfigInit ==
    /\ \E c \in Configurations, ct \in Contracts \cup InvalidContracts,
          tf \in Timeframes \cup {NoTimeframes} :
          /\ ct \in InvalidContracts \/ tf = NoTimeframes
          /\ ConstructedWith(c, ct, tf)
    /\ conv = None
    /\ engines = None
    /\ call = None

SpecConfig == ConfigInit /\ [][Next]_vars

\* ------------------------------------------ two instances (SpecPair)
\* Two BacktestEngine instances whose run() coroutines the event loop
\* interleaves: run() yields at the await of every iteration.  An instance
\* is the record of its attributes; loader is the bar series its query
\* returns (read-only reference data).
NewEngine(c, ct, tf, series) ==
    [mode |-> c.mode, model |-> LoadedModel(c), bot_config |-> c.bot_config,
     indicator_config |-> c.indicator_config, contract |-> ct,
     timeframes |-> tf, loader |-> series,
     bars |-> << >>, i |-> 0, pc |-> "start", signal |-> None,
     positions |-> << >>, trades |-> << >>, balance |-> InitialBalance,
     peak_balance |-> InitialBalance, max_drawdown |-> 0,
     equity_curve |-> << >>, results |-> None]

LedgerOf(e) ==
    Ledger(e.positions, e.trades, e.balance, e.peak_balance, e.max_drawdown,
           e.equity_curve)

\* The instance after an operation that left the ledger st, run() going on
\* at next with loop index k.
WithLedger(e, st, next, k) ==
    [e EXCEPT !.positions = st.positions, !.trades = st.trades,
              !.balance = st.balance, !.peak_balance = st.peak_balance,
              !.max_drawdown = st.max_drawdown,
              !.equity_curve = st.equity_curve,
              !.pc = Raised(st, next),
              !.i = IF st.raised THEN e.i ELSE k]

\* One step of run() on the instance e: the step Next takes on the
\* variables, taken on the attributes of e.
RunStep(e) ==
    IF e.pc = "start"
    THEN IF e.timeframes = << >> THEN [e EXCEPT !.pc = "error"]
         ELSE LET lo == load_outcome(e.loader, e.equity_curve)
              IN  [e EXCEPT !.bars = e.loader, !.pc = lo.pc, !.i = lo.i,
                            !.equity_curve = lo.equity_curve]
    ELSE IF e.pc = "signal"
    THEN [e EXCEPT !.signal = generate_signals_parallel(
                                  e.mode, e.model, e.indicator_config,
                                  WindowBars(e.bars, e.i)),
                   !.pc = "exits"]
    ELSE IF e.pc = "exits"
    THEN WithLedger(e, check_position_exits(LedgerOf(e), BarAt(e.bars, e.i),
                                            e.contract),
                    "open", e.i)
    ELSE IF e.pc = "open"
    THEN WithLedger(e, EntryDecision(LedgerOf(e), e.signal, BarAt(e.bars, e.i),
                                     e.indicator_config, e.bot_config,
                                     e.contract),
                    LoopAt(e.bars, e.i + 1), e.i + 1)
    ELSE IF e.pc = "close"
    THEN WithLedger(e, close_open_positions(LedgerOf(e), e.bars, e.contract),
                    "results", e.i)
    ELSE IF e.pc = "results"
    THEN [e EXCEPT !.results = calculate_results(LedgerOf(e)), !.pc = "done"]
    ELSE e

Finished(e) == e.pc \in {"done", "error"}

\* A second contract row: tick_size 0.25, tick_value 25.
PairContracts == Contracts \cup {[tick_size |-> 2, tick_value |-> 25]}

PairConfigurations ==
    { Configuration("bot_only", LongPolicy, None, None),
      Configuration("indicators_only", None, BotConfigTwo, IndicatorConfigLow) }

\* The loaders of SpecPair return the longest series that alternate between
\* a bar closing low and a bar closing high.
PairSeries ==
    { Stamp([k \in 1..MaxBars |-> IF k % 2 = 1 THEN a ELSE b]) :
        a \in {sh \in BarShapes : sh.close < sh.high},
        b \in {sh \in BarShapes : sh.close > sh.low} }

\* Shared by the instances: the simulation state is a class attribute, the
\* first instance's lists are every instance's lists.
InstanceStateShared(es, k) ==
    [es[k] EXCEPT !.positions = es[1].positions, !.trades = es[1].trades]

\* self of the methods of instance k: __init__ gives every instance its own
\* positions, trades, balance, peak_balance, max_drawdown and equity_curve.
InstanceState(es, k) == es[k]

PairInit ==
    /\ Constructed(Configuration("indicators_only", None, None, None))
    /\ bars = << >> /\ i = 0 /\ pc = "start" /\ signal = None
    /\ positions = << >> /\ trades = << >> /\ balance = InitialBalance
    /\ peak_balance = InitialBalance /\ max_drawdown = 0
    /\ equity_curve = << >> /\ results = None
    /\ conv = None
    /\ call = None
    /\ \E c1 \in PairConfigurations, c2 \in PairConfigurations,
          ct \in PairContracts, s1 \in PairSeries, s2 \in PairSeries :
          engines = << NewEngine(c1, CHOOSE x \in Contracts : TRUE,
                                 CHOOSE tf \in Timeframes : TRUE, s1),
                       NewEngine(c2, ct, CHOOSE tf \in Timeframes : TRUE, s2) >>

\* The event loop resumes the run() of instance k for one iteration step.
PairStep(k) ==
    /\ ~Finished(engines[k])
    /\ engines' = [engines EXCEPT ![k] = RunStep(InstanceState(engines, k))]
    /\ UNCHANGED << config, bars, i, pc, signal, ledger, results, conv, call >>

PairNext == \E k \in DOMAIN engines : PairStep(k)

SpecPair == PairInit /\ [][PairNext]_vars

\* ------------------------------------ the rising series (SpecUptrend)
\* The contract of the scenario: tick_size 0.25, tick_value 5.
UptrendContract == [tick_size |-> 2, tick_value |-> 5]

\* n bars whose close rises by one tick (0.25) per bar from start, each bar
\* reaching spread below and above its close.
Uptrend(n, start, spread) ==
    [k \in 1..n |->
        [timestamp |-> k - 1, low |-> start + 2 * (k - 1) - spread,
         high |-> start + 2 * (k - 1) + spread, close |-> start + 2 * (k - 1)]]

\* SpecUptrend: one engine in mode indicators_only, only the moving-average
\* indicator enabled, on a rising series.
UptrendInit ==
    /\ Constructed(Configuration("indicators_only", None, None, None))
    /\ bars = << >> /\ i = 0 /\ pc = "start" /\ signal = None
    /\ positions = << >> /\ trades = << >> /\ balance = InitialBalance
    /\ peak_balance = InitialBalance /\ max_drawdown = 0
    /\ equity_curve = << >> /\ results = None
    /\ conv = None
    /\ call = None
    /\ \E n \in (WindowSize + 2)..UptrendBars, start \in {20, 22, 40},
          spread \in {0, 2}, bc \in {None, BotConfigTwo},
          ic \in IndicatorConfigs :
          engines = << NewEngine(Configuration("indicators_only", None, bc, ic),
                                 UptrendContract,
                                 CHOOSE tf \in Timeframes : TRUE,
                                 Uptrend(n, start, spread)) >>

UptrendNext == PairStep(1)

SpecUptrend == UptrendInit /\ [][UptrendNext]_vars

\* ------------------------------- the indicator functions (SpecIndicators)
\* Default periods of the indicator functions.
SmiKLength == 8
SmiDSmoothing == 3
SmiSignalPeriod == 3
MacdFastPeriod == 12
MacdSlowPeriod == 26
MacdSignalPeriod == 9
BbPeriod == 20
MaSmaFast == 20
MaSmaSlow == 50
MaEmaFast == 12
MaEmaSlow == 26
AtrPeriod == 14
RsiPeriod == 14
RsiNeutral == 50
StochRsiPeriod == 14
VwapMinBars == 2
SuperTrendPeriod == 10
KdjPeriod == 9
CciPeriod == 20
RocPeriod == 12
WilliamsPeriod == 14

\* A numpy array is a sequence of fractions.  np.zeros(n), np.full(n, v).
Full(n, v) == [k \in 1..n |-> Frac(v, 1)]
Zeros(n) == Full(n, 0)

FracSub(a, b) == Frac(a.num * b.den - b.num * a.den, a.den * b.den)
ArraySub(x, y) == [k \in 1..Len(x) |-> FracSub(x[k], y[k])]

\* An array the function computed past its fallback: only its length is
\* followed.
Computed(n) == [k \in 1..n |-> [computed |-> TRUE]]

\* What a call gives: the arrays of its result, or the exception it raised.
Returned(arrays) == [raised |-> None, arrays |-> arrays]
Raises(exception) == [raised |-> [exception |-> exception], arrays |-> << >>]

Closes(bs) == [k \in 1..Len(bs) |-> Frac(bs[k].close, 1)]

\* calculate_ema: the input itself when shorter than the period; otherwise
\* ema[0] = data[0], ema[i] = alpha * data[i] + (1 - alpha) * ema[i-1] with
\* alpha = 2 / (period + 1).
RECURSIVE EmaAt(_, _, _)
EmaAt(data, period, k) ==
    IF k = 1 THEN data[1]
    ELSE LET prev == EmaAt(data, period, k - 1)
         IN  Frac(2 * data[k].num * prev.den + (period - 1) * prev.num * data[k].den,
                  (period + 1) * data[k].den * prev.den)

calculate_ema(data, period) ==
    IF Len(data) < period THEN data
    ELSE [k \in 1..Len(data) |-> EmaAt(data, period, k)]

\* calculate_sma on an array of fractions: Computed past the fallback.
sma_of(data, period) ==
    IF Len(data) < period THEN data ELSE Computed(Len(data))

calculate_smi(bs) ==
    IF Len(bs) < SmiKLength + SmiDSmoothing * 2 + SmiSignalPeriod
    THEN Returned(<< Zeros(Len(bs)), Zeros(Len(bs)) >>)
    ELSE Returned(<< Computed(Len(bs)), Computed(Len(bs)) >>)

calculate_macd(bs) ==
    LET ema_fast == calculate_ema(Closes(bs), MacdFastPeriod)
        ema_slow == calculate_ema(Closes(bs), MacdSlowPeriod)
        macd == ArraySub(ema_fast, ema_slow)
        sig == calculate_ema(macd, MacdSignalPeriod)
    IN  Returned(<< macd, sig, ArraySub(macd, sig) >>)

\* calculate_bollinger_bands: no length test; after the loop (empty on a
\* short series) std[:period - 1] = std[period - 1] reads index period - 1
\* of an array of len(bars) entries.
calculate_bollinger_bands(bs, period) ==
    LET middle == sma_of(Closes(bs), period)
        std == Zeros(Len(bs))
    IN  IF period - 1 >= Len(std) THEN Raises("IndexError")
        ELSE Returned(<< Computed(Len(bs)), middle, Computed(Len(bs)),
                         Computed(Len(bs)) >>)

moving_averages(bs, sma_fast, sma_slow, ema_fast, ema_slow) ==
    Returned(<< sma_of(Closes(bs), sma_fast), sma_of(Closes(bs), sma_slow),
                calculate_ema(Closes(bs), ema_fast),
                calculate_ema(Closes(bs), ema_slow) >>)

calculate_atr(bs) ==
    IF Len(bs) < AtrPeriod + 1 THEN Returned(<< Zeros(Len(bs)) >>)
    ELSE Returned(<< Computed(Len(bs)) >>)

calculate_rsi(data) ==
    IF Len(data) < RsiPeriod + 1 THEN Returned(<< Full(Len(data), RsiNeutral) >>)
    ELSE Returned(<< Computed(Len(data)) >>)

calculate_stoch_rsi(bs) ==
    IF Len(bs) < RsiPeriod + StochRsiPeriod
    THEN Returned(<< Zeros(Len(bs)), Zeros(Len(bs)), Zeros(Len(bs)) >>)
    ELSE Returned(<< Computed(Len(bs)), Computed(Len(bs)), Computed(Len(bs)) >>)

\* float('nan'): what numpy leaves where it divides 0 by 0.
NaN == [nan |-> TRUE]

\* np.cumsum of the first k elements of an integer array.
RECURSIVE CumSum(_, _)
CumSum(x, k) == IF k = 0 THEN 0 ELSE CumSum(x, k - 1) + x[k]

\* vwap = cumulative_tp_volume / cumulative_volume, with the typical price
\* (high + low + close) / 3 kept as its numerator over 3: the quotient at k,
\* nan where the cumulative volume is 0.
VwapArray(bs) ==
    LET tp_volume == [k \in 1..Len(bs) |->
                         (bs[k].high + bs[k].low + bs[k].close) * bs[k].volume]
        volumes == [k \in 1..Len(bs) |-> bs[k].volume]
    IN  [k \in 1..Len(bs) |->
            IF CumSum(volumes, k) = 0 THEN NaN
            ELSE Frac(CumSum(tp_volume, k), 3 * CumSum(volumes, k))]

\* upper_band and lower_band: vwap +- std * std_dev, where std comes from
\* cumsum(squared_diff * volumes) / cumulative_volume.  A nan in vwap makes
\* squared_diff nan there, and the cumulative sum carries it to every later
\* entry; past that only the presence of a value is followed.
VwapBand(bs) ==
    LET vwap == VwapArray(bs)
    IN  [k \in 1..Len(bs) |->
            IF \E j \in 1..k : vwap[j] = NaN THEN NaN ELSE [computed |-> TRUE]]

calculate_vwap(bs) ==
    IF Len(bs) < VwapMinBars
    THEN Returned(<< Zeros(Len(bs)), Zeros(Len(bs)), Zeros(Len(bs)) >>)
    ELSE Returned(<< VwapArray(bs), VwapBand(bs), VwapBand(bs) >>)

calculate_supertrend(bs) ==
    IF Len(bs) < SuperTrendPeriod + 1
    THEN Returned(<< Zeros(Len(bs)), Zeros(Len(bs)) >>)
    ELSE Returned(<< Computed(Len(bs)), Computed(Len(bs)) >>)

calculate_kdj(bs) ==
    IF Len(bs) < KdjPeriod
    THEN Returned(<< Zeros(Len(bs)), Zeros(Len(bs)), Zeros(Len(bs)) >>)
    ELSE Returned(<< Computed(Len(bs)), Computed(Len(bs)), Computed(Len(bs)) >>)

calculate_cci(bs) ==
    IF Len(bs) < CciPeriod THEN Returned(<< Zeros(Len(bs)) >>)
    ELSE Returned(<< Computed(Len(bs)) >>)

calculate_roc(bs) ==
    IF Len(bs) < RocPeriod + 1 THEN Returned(<< Zeros(Len(bs)) >>)
    ELSE Returned(<< Computed(Len(bs)) >>)

calculate_williams_r(bs) ==
    IF Len(bs) < WilliamsPeriod THEN Returned(<< Zeros(Len(bs)) >>)
    ELSE Returned(<< Computed(Len(bs)) >>)

\* The functions of TechnicalIndicators with the minimum lookback of each
\* under its default periods (EMA and SMA: the period they are called with).
Lookback ==
    [EMA |-> MaEmaFast, SMA |-> MaSmaFast,
     SMI |-> SmiKLength + SmiDSmoothing * 2 + SmiSignalPeriod,
     MACD |-> MacdSlowPeriod, BB |-> BbPeriod, MA |-> MaSmaSlow,
     ATR |-> AtrPeriod + 1, RSI |-> RsiPeriod + 1,
     STOCH_RSI |-> RsiPeriod + StochRsiPeriod, VWAP |-> VwapMinBars,
     SUPERTREND |-> SuperTrendPeriod + 1, KDJ |-> KdjPeriod,
     CCI |-> CciPeriod, ROC |-> RocPeriod + 1, WILLIAMS_R |-> WilliamsPeriod]

Indicators == DOMAIN Lookback

\* The call of one function on the bars bs.
Calculate(indicator, bs) ==
    CASE indicator = "EMA" -> Returned(<< calculate_ema(Closes(bs), MaEmaFast) >>)
      [] indicator = "SMA" -> Returned(<< calculate_sma(
                                  [k \in 1..Len(bs) |-> bs[k].close], MaSmaFast) >>)
      [] indicator = "SMI" -> calculate_smi(bs)
      [] indicator = "MACD" -> calculate_macd(bs)
      [] indicator = "BB" -> calculate_bollinger_bands(bs, BbPeriod)
      [] indicator = "MA" -> moving_averages(bs, MaSmaFast, MaSmaSlow,
                                             MaEmaFast, MaEmaSlow)
      [] indicator = "ATR" -> calculate_atr(bs)
      [] indicator = "RSI" -> calculate_rsi(Closes(bs))
      [] indicator = "STOCH_RSI" -> calculate_stoch_rsi(bs)
      [] indicator = "VWAP" -> calculate_vwap(bs)
      [] indicator = "SUPERTREND" -> calculate_supertrend(bs)
      [] indicator = "KDJ" -> calculate_kdj(bs)
      [] indicator = "CCI" -> calculate_cci(bs)
      [] indicator = "ROC" -> calculate_roc(bs)
      [] indicator = "WILLIAMS_R" -> calculate_williams_r(bs)

\* The bar series of SpecIndicators: every series of up to MaxShortBars bars.
ShortSeries ==
    UNION { { Stamp(sh) : sh \in [1..n -> BarShapes] } : n \in 0..MaxShortBars }

\* SpecIndicators: a caller is about to call one function on a series
\* shorter than the function's lookback.
IndicatorInit ==
    /\ Constructed(Configuration("indicators_only", None, None, None))
    /\ bars = << >> /\ i = 0 /\ pc = "start" /\ signal = None
    /\ positions = << >> /\ trades = << >> /\ balance = InitialBalance
    /\ peak_balance = InitialBalance /\ max_drawdown = 0
    /\ equity_curve = << >> /\ results = None
    /\ conv = None
    /\ engines = None
    /\ \E indicator \in Indicators, bs \in ShortSeries :
          /\ Len(bs) < Lookback[indicator]
          /\ call = [stage |-> "call", indicator |-> indicator, bars |-> bs]

IndicatorCall ==
    /\ call.stage = "call"
    /\ call' = [stage |-> "returned",
                outcome |-> Calculate(call.indicator, call.bars)] @@ call
    /\ UNCHANGED << config, bars, i, pc, signal, ledger, results, conv, engines >>

IndicatorNext == IndicatorCall

SpecIndicators == IndicatorInit /\ [][IndicatorNext]_vars

\* ------------------------------------- staggered levels (SpecLevels)
\* Bars that reach the levels of some open positions and not of others: two
\* narrow bars closing at 22 and at 20, a dip to 15, a peak at 33 and a bar
\* that spans every level.
LevelShapes ==
    { [low |-> 22, high |-> 22, close |-> 22],
      [low |-> 20, high |-> 20, close |-> 20],
      [low |-> 15, high |-> 22, close |-> 22],
      [low |-> 20, high |-> 33, close |-> 20],
      [low |->  8, high |-> 40, close |-> 20] }

\* Series whose first window_size bars are the narrow bar at 22.
LevelSeries ==
    UNION { { Stamp([k \in 1..n |->
                       IF k <= WindowSize
                       THEN [low |-> 22, high |-> 22, close |-> 22]
                       ELSE t[k - WindowSize]]) :
                t \in [1..(n - WindowSize) -> LevelShapes] } :
            n \in (WindowSize + 1)..MaxBars }

\* SpecLevels: one engine in mode bot_only whose model enters at every bar.
LevelsInit ==
    /\ Constructed(Configuration("indicators_only", None, None, None))
    /\ bars = << >> /\ i = 0 /\ pc = "start" /\ signal = None
    /\ positions = << >> /\ trades = << >> /\ balance = InitialBalance
    /\ peak_balance = InitialBalance /\ max_drawdown = 0
    /\ equity_curve = << >> /\ results = None
    /\ conv = None
    /\ call = None
    /\ \E policy \in {LongPolicy, ShortPolicy}, bc \in {None, BotConfigTwo},
          series \in LevelSeries :
          engines = << NewEngine(Configuration("bot_only", policy, bc, None),
                                 CHOOSE ct \in Contracts : TRUE,
                                 CHOOSE tf \in Timeframes : TRUE,
                                 series) >>

LevelsNext == PairStep(1)

SpecLevels == LevelsInit /\ [][LevelsNext]_vars

\* ------------------------------- bars with their volume (SpecVolume)
\* Bars of the documented domain: positive prices, a volume that is a
\* non-negative integer.
VolumeSeries(n) ==
    { [k \in 1..n |-> [timestamp |-> k - 1, low |-> sh[k].low,
                        high |-> sh[k].high, close |-> sh[k].close,
                        volume |-> vol[k]]] :
        sh \in [1..n -> BarShapes], vol \in [1..n -> {0, 1, 3}] }

\* SpecVolume: a caller is about to call calculate_vwap on bars that carry
\* their volume.
VolumeInit ==
    /\ Constructed(Configuration("indicators_only", None, None, None))
    /\ bars = << >> /\ i = 0 /\ pc = "start" /\ signal = None
    /\ positions = << >> /\ trades = << >> /\ balance = InitialBalance
    /\ peak_balance = InitialBalance /\ max_drawdown = 0
    /\ equity_curve = << >> /\ results = None
    /\ conv = None
    /\ engines = None
    /\ \E n \in 1..MaxVolumeBars : \E bs \in VolumeSeries(n) :
          call = [stage |-> "call", indicator |-> "VWAP", bars |-> bs]

VolumeNext == IndicatorCall

SpecVolume == VolumeInit /\ [][VolumeNext]_vars

\* --------------------------- timeframe aggregation (SpecAggregate)
\* A datetime: the day, the minute of the day (hour * 60 + minute) and the
\* second.
Times ==
    [day : {0, 1}, minute : 0..(DayMinutes - 1), second : {0, 30}]

\* The order of datetimes.
Seconds(t) == (t.day * DayMinutes + t.minute) * 60 + t.second

\* HistoricalBar rows of one minute, without their time.
MinuteShapes ==
    { [open |-> 4, high |-> 6, low |-> 3, close |-> 5, volume |-> 0],
      [open |-> 5, high |-> 5, low |-> 2, close |-> 2, volume |-> 7] }

\* The times of n rows the query returns: ordered by time.
OrderedTimes(n) ==
    { t \in [1..n -> Times] :
        \A k \in 1..(n - 1) : Seconds(t[k]) < Seconds(t[k + 1]) }

\* period_start of _aggregate_bars: the time without its seconds, moved
\* back to the start of its period of timeframe_minutes within the day.
PeriodStart(time, timeframe_minutes) ==
    LET minutes_since_midnight == time.minute
        period_start_minutes ==
            (minutes_since_midnight \div timeframe_minutes) * timeframe_minutes
    IN  [day |-> time.day, minute |-> period_start_minutes, second |-> 0]

RECURSIVE MaxHigh(_)
MaxHigh(bs) ==
    IF Len(bs) = 1 THEN bs[1].high
    ELSE IF bs[1].high > MaxHigh(Tail(bs)) THEN bs[1].high ELSE MaxHigh(Tail(bs))

RECURSIVE MinLow(_)
MinLow(bs) ==
    IF Len(bs) = 1 THEN bs[1].low
    ELSE IF bs[1].low < MinLow(Tail(bs)) THEN bs[1].low ELSE MinLow(Tail(bs))

RECURSIVE SumVolume(_)
SumVolume(bs) == IF bs = << >> THEN 0 ELSE bs[1].volume + SumVolume(Tail(bs))

\* _create_aggregated_bar
create_aggregated_bar(bs, time) ==
    [open |-> bs[1].open, high |-> MaxHigh(bs), low |-> MinLow(bs),
     close |-> bs[Len(bs)].close, volume |-> SumVolume(bs),
     time |-> isoformat(time)]

\* A mutant for C26: the bar that starts a period is left out of it.
AggregateStepDropsFirst(acc, bar, timeframe_minutes) ==
    LET period_start == PeriodStart(bar.time, timeframe_minutes)
        current_start == IF acc.current_start = None THEN period_start
                         ELSE acc.current_start
    IN  IF period_start # current_start
        THEN [aggregated |->
                  IF acc.current_bars # << >>
                  THEN Append(acc.aggregated,
                              create_aggregated_bar(acc.current_bars, current_start))
                  ELSE acc.aggregated,
              current_bars |-> << >>,
              current_start |-> period_start]
        ELSE [aggregated |-> acc.aggregated,
              current_bars |-> Append(acc.current_bars, bar),
              current_start |-> current_start]

\* One iteration of the loop of _aggregate_bars: acc is aggregated,
\* current_bars and current_start.
AggregateStep(acc, bar, timeframe_minutes) ==
    LET period_start == PeriodStart(bar.time, timeframe_minutes)
        current_start == IF acc.current_start = None THEN period_start
                         ELSE acc.current_start
    IN  IF period_start # current_start
        THEN [aggregated |->
                  IF acc.current_bars # << >>
                  THEN Append(acc.aggregated,
                              create_aggregated_bar(acc.current_bars, current_start))
                  ELSE acc.aggregated,
              current_bars |-> << bar >>,
              current_start |-> period_start]
        ELSE [aggregated |-> acc.aggregated,
              current_bars |-> Append(acc.current_bars, bar),
              current_start |-> current_start]

RECURSIVE AggregateLoop(_, _, _)
AggregateLoop(acc, bars_1m, timeframe_minutes) ==
    IF bars_1m = << >> THEN acc
    ELSE AggregateLoop(AggregateStep(acc, Head(bars_1m), timeframe_minutes),
                       Tail(bars_1m), timeframe_minutes)

\* _aggregate_bars
aggregate_bars(bars_1m, timeframe_minutes) ==
    LET acc == AggregateLoop([aggregated |-> << >>, current_bars |-> << >>,
                              current_start |-> None],
                             bars_1m, timeframe_minutes)
    IN  IF acc.current_bars # << >>
        THEN Append(acc.aggregated,
                    create_aggregated_bar(acc.current_bars, acc.current_start))
        ELSE acc.aggregated

\* SpecAggregate: _load_bars_for_timeframe has the rows of the query and a
\* timeframe above one minute.
AggregateInit ==
    /\ Constructed(Configuration("indicators_only", None, None, None))
    /\ bars = << >> /\ i = 0 /\ pc = "start" /\ signal = None
    /\ positions = << >> /\ trades = << >> /\ balance = InitialBalance
    /\ peak_balance = InitialBalance /\ max_drawdown = 0
    /\ equity_curve = << >> /\ results = None
    /\ conv = None
    /\ engines = None
    /\ \E n \in 1..MaxMinuteBars, timeframe_minutes \in 2..MaxTimeframe :
          \E ts \in OrderedTimes(n), sh \in [1..n -> MinuteShapes] :
             call = [stage |-> "rows",
                     bars_db |-> [k \in 1..n |-> [time |-> ts[k]] @@ sh[k]],
                     timeframe_minutes |-> timeframe_minutes]

\* return self._aggregate_bars(bars_db, timeframe_minutes)
AggregateBars ==
    /\ call.stage = "rows"
    /\ call' = [stage |-> "aggregated",
                aggregated |-> aggregate_bars(call.bars_db, call.timeframe_minutes)]
               @@ call
    /\ UNCHANGED << config, bars, i, pc, signal, ledger, results, conv, engines >>

AggregateNext == AggregateBars

SpecAggregate == AggregateInit /\ [][AggregateNext]_vars

\* ------------------------------------ a failing model (SpecDegrade)
\* SpecDegrade: one engine in a bot mode, without a model or with a model
\* whose inference raises on some windows.
DegradeConfigurations ==
    { Configuration(m, policy, bc, IF m = "bot_only" THEN None
                                    ELSE IndicatorConfigLow) :
        m \in {"bot_only", "bot_indicators"},
        policy \in {None, FaultyPolicy},
        bc \in {None, BotConfigTwo} }

DegradeInit ==
    /\ Constructed(Configuration("indicators_only", None, None, None))
    /\ bars = << >> /\ i = 0 /\ pc = "start" /\ signal = None
    /\ positions = << >> /\ trades = << >> /\ balance = InitialBalance
    /\ peak_balance = InitialBalance /\ max_drawdown = 0
    /\ equity_curve = << >> /\ results = None
    /\ conv = None
    /\ call = None
    /\ \E c \in DegradeConfigurations, series \in LevelSeries :
          engines = << NewEngine(c, CHOOSE ct \in Contracts : TRUE,
                                 CHOOSE tf \in Timeframes : TRUE, series) >>

DegradeNext == PairStep(1)

SpecDegrade == DegradeInit /\ [][DegradeNext]_vars

\* ---------------------------------- the votes of the rules (SpecVotes)
\* The confidences of the rules of generate_signal, in thousandths.
SmiConfidenceCap == 950
MacdConfidence == 750
BbConfidence == 700
StochRsiZoneConfidence == 750
StochRsiCrossConfidence == 700
VwapBandConfidence == 750
VwapSideConfidence == 600
SuperTrendFlipConfidence == 850
SuperTrendSideConfidence == 650
KdjExtremeConfidence == 800
KdjCrossConfidence == 750

Rule(side, thousandths, reason) ==
    [signal |-> side, confidence |-> Confidence(thousandths), reason |-> reason]

\* The if/elif chain of each indicator section of generate_signal, in the
\* order of the source: the vote each branch casts.  (The SMI votes carry
\* the confidence calculate_smi computed: its cap.)
RuleChain ==
    [SMI |-> << Rule("LONG", SmiConfidenceCap, "SMI cruce alcista"),
                Rule("SHORT", SmiConfidenceCap, "SMI cruce bajista") >>,
     MACD |-> << Rule("LONG", MacdConfidence, "MACD cruce alcista"),
                 Rule("SHORT", MacdConfidence, "MACD cruce bajista") >>,
     BB |-> << Rule("LONG", BbConfidence, "Precio en banda inferior"),
               Rule("SHORT", BbConfidence, "Precio en banda superior") >>,
     MA |-> << Rule("LONG", GoldenCrossConfidence, "Golden Cross (SMA)"),
               Rule("SHORT", GoldenCrossConfidence, "Death Cross (SMA)") >>,
     STOCH_RSI |-> << Rule("LONG", StochRsiZoneConfidence, "StochRSI sobreventa"),
                      Rule("SHORT", StochRsiZoneConfidence, "StochRSI sobrecompra"),
                      Rule("LONG", StochRsiCrossConfidence, "StochRSI cruce alcista"),
                      Rule("SHORT", StochRsiCrossConfidence, "StochRSI cruce bajista") >>,
     VWAP |-> << Rule("LONG", VwapBandConfidence, "Precio bajo banda inferior VWAP"),
                 Rule("SHORT", VwapBandConfidence, "Precio sobre banda superior VWAP"),
                 Rule("LONG", VwapSideConfidence, "Precio bajo VWAP"),
                 Rule("SHORT", VwapSideConfidence, "Precio sobre VWAP") >>,
     SUPERTREND |-> << Rule("LONG", SuperTrendFlipConfidence, "SuperTrend cambio a alcista"),
                       Rule("SHORT", SuperTrendFlipConfidence, "SuperTrend cambio a bajista"),
                       Rule("LONG", SuperTrendSideConfidence, "SuperTrend alcista"),
                       Rule("SHORT", SuperTrendSideConfidence, "SuperTrend bajista") >>,
     KDJ |-> << Rule("LONG", KdjExtremeConfidence, "KDJ sobreventa extrema"),
                Rule("SHORT", KdjExtremeConfidence, "KDJ sobrecompra extrema"),
                Rule("LONG", KdjCrossConfidence, "KDJ cruce alcista"),
                Rule("SHORT", KdjCrossConfidence, "KDJ cruce bajista") >>]

\* The sections of generate_signal in the order of the source.
Sections ==
    << "SMI", "MACD", "BB", "MA", "STOCH_RSI", "VWAP", "SUPERTREND", "KDJ" >>

\* The vote of one section: conditions is the set of the branches of its
\* chain whose condition holds on the bars; the first of them casts the vote.
SectionVotes(name, conditions) ==
    IF conditions = {} THEN << >>
    ELSE LET first == CHOOSE r \in conditions : \A q \in conditions : r <= q
         IN  << [indicator |-> name] @@ RuleChain[name][first] >>

\* signals, confidences and reasons after the sections from index k on:
\* use[name] is the use_ flag of a section.
RECURSIVE CastVotes(_, _, _)
CastVotes(use, conditions, k) ==
    IF k > Len(Sections) THEN << >>
    ELSE (IF use[Sections[k]]
          THEN SectionVotes(Sections[k], conditions[Sections[k]])
          ELSE << >>)
         \o CastVotes(use, conditions, k + 1)

\* The use_ flags with at most MaxEnabled sections enabled.
UseFlags ==
    { [name \in DOMAIN RuleChain |-> name \in on] :
        on \in { e \in SUBSET (DOMAIN RuleChain) : Cardinality(e) <= MaxEnabled } }

\* SpecVotes: generate_signal is called with some use_ flags on bars (50 or
\* more) on which some of the rule conditions hold.
VotesInit ==
    /\ Constructed(Configuration("indicators_only", None, None, None))
    /\ bars = << >> /\ i = 0 /\ pc = "start" /\ signal = None
    /\ positions = << >> /\ trades = << >> /\ balance = InitialBalance
    /\ peak_balance = InitialBalance /\ max_drawdown = 0
    /\ equity_curve = << >> /\ results = None
    /\ conv = None
    /\ engines = None
    /\ \E use \in UseFlags :
          LET on == {name \in DOMAIN use : use[name]}
          IN  \E held \in [on -> SUBSET (1..4)] :
                 /\ \A name \in on : held[name] \subseteq 1..Len(RuleChain[name])
                 /\ call = [stage |-> "rules", use |-> use,
                            conditions |-> [name \in DOMAIN use |->
                                IF name \in on THEN held[name] ELSE {}]]

\* generate_signal: the sections cast their votes, the majority decides.
GenerateSignal ==
    /\ call.stage = "rules"
    /\ LET votes == CastVotes(call.use, call.conditions, 1)
       IN  call' = [stage |-> "returned", votes |-> votes,
                    result |-> FinalSignal(votes)] @@ call
    /\ UNCHANGED << config, bars, i, pc, signal, ledger, results, conv, engines >>

VotesNext == GenerateSignal

SpecVotes == VotesInit /\ [][VotesNext]_vars

\* ------------------------------------------- float arithmetic (SpecPnl)
\* Python floats are binary floating-point numbers rounded to nearest, ties
\* to even.  A float is kept as the integer number of steps of 2^-FracBits
\* it is worth; it has at most Precision significant bits.
RECURSIVE Pow2(_)
Pow2(n) == IF n = 0 THEN 1 ELSE 2 * Pow2(n - 1)

FloatScale == Pow2(FracBits)

\* The spacing of the floats around a / den (a >= 0, den > 0).
RECURSIVE Quantum(_, _, _)
Quantum(a, den, q) ==
    IF a < Pow2(Precision) * den * q THEN q ELSE Quantum(a, den, 2 * q)

\* The float nearest to num / den steps (den > 0), ties to even.
RoundToFloat(num, den) ==
    LET a == Abs(num)
        q == Quantum(a, den, 1)
        m == a \div (den * q)
        r == a - m * den * q
        up == 2 * r > den * q \/ (2 * r = den * q /\ m % 2 = 1)
        mag == (IF up THEN m + 1 ELSE m) * q
    IN  IF num < 0 THEN -mag ELSE mag

\* float(x) of a decimal literal or an integer: x = num / den.
ToFloat(num, den) == RoundToFloat(num * FloatScale, den)

FloatAdd(x, y) == RoundToFloat(x + y, 1)
FloatSub(x, y) == RoundToFloat(x - y, 1)
FloatMul(x, y) == RoundToFloat(x * y, FloatScale)
FloatDiv(x, y) ==
    IF y > 0 THEN RoundToFloat(x * FloatScale, y)
    ELSE RoundToFloat(-(x * FloatScale), -y)

\* The P&L conversion of _close_position as Python evaluates it.
FloatTicks(side, entry_price, exit_price, tick_size) ==
    IF side = "LONG"
    THEN FloatDiv(FloatSub(exit_price, entry_price), tick_size)
    ELSE FloatDiv(FloatSub(entry_price, exit_price), tick_size)

FloatPnl(ticks, tick_value, quantity) ==
    FloatMul(FloatMul(ticks, tick_value), ToFloat(quantity, 1))

\* Contract rows of SpecPnl: tick sizes 0.25 and 0.1, tick values 5 and 10.
FloatContracts ==
    { [tick_size |-> ToFloat(1, 4), tick_value |-> ToFloat(5, 1), dyadic |-> TRUE],
      [tick_size |-> ToFloat(1, 4), tick_value |-> ToFloat(10, 1), dyadic |-> TRUE],
      [tick_size |-> ToFloat(1, 10), tick_value |-> ToFloat(5, 1), dyadic |-> FALSE],
      [tick_size |-> ToFloat(1, 10), tick_value |-> ToFloat(10, 1), dyadic |-> FALSE] }

\* Entry prices of SpecPnl: 1.0, 2.0 and 3.0.
EntryPrices == { ToFloat(n, 1) : n \in 1..3 }

\* SpecPnl: one OPEN position of each side at each entry price.
PnlInit ==
    /\ Constructed(Configuration("indicators_only", None, None, None))
    /\ \E ct \in FloatContracts, side \in {"LONG", "SHORT"},
          entry_price \in EntryPrices :
          conv = [stage |-> "open", contract |-> ct, side |-> side,
                  quantity |-> 1, entry_price |-> entry_price]
    /\ engines = None
    /\ call = None

\* The exit price P + k * tick_size is formed (by the caller, in floats).
PnlExit ==
    /\ conv.stage = "open"
    /\ \E k \in (0 - MaxK)..MaxK :
          conv' = [stage |-> "exit", k |-> k,
                   exit_price |->
                       FloatAdd(conv.entry_price,
                                FloatMul(ToFloat(k, 1), conv.contract.tick_size))]
                  @@ conv
    /\ UNCHANGED << config, bars, i, pc, signal, ledger, results, engines, call >>

\* _close_position computes ticks and pnl of the position.
PnlClose ==
    /\ conv.stage = "exit"
    /\ LET ticks == FloatTicks(conv.side, conv.entry_price, conv.exit_price,
                              conv.contract.tick_size)
       IN  conv' = [stage |-> "closed", ticks |-> ticks,
                    pnl |-> FloatPnl(ticks, conv.contract.tick_value,
                                     conv.quantity)]
                   @@ conv
    /\ UNCHANGED << config, bars, i, pc, signal, ledger, results, engines, call >>

\* The initial balance of the float format: like 100000.0 among the doubles
\* it is exact and has every amount a dyadic contract earns or loses in a
\* trade exactly representable around it.
FloatInitialBalance == ToFloat(BalanceScale, 1)

\* sum(t['pnl'] for t in self.trades): the additions start from 0.
RECURSIVE FloatSum(_, _)
FloatSum(acc, pnls) ==
    IF pnls = << >> THEN acc
    ELSE FloatSum(FloatAdd(acc, Head(pnls)), Tail(pnls))

\* _close_position goes on: self.balance += pnl; _calculate_results then
\* reports total_pnl and final_balance.
PnlBook ==
    /\ conv.stage = "closed"
    /\ conv' = [stage |-> "booked",
                initial_balance |-> FloatInitialBalance,
                final_balance |-> FloatAdd(FloatInitialBalance, conv.pnl),
                total_pnl |-> FloatSum(0, << conv.pnl >>)]
               @@ conv
    /\ UNCHANGED << config, bars, i, pc, signal, ledger, results, engines, call >>

PnlNext == PnlExit \/ PnlClose \/ PnlBook

SpecPnl == PnlInit /\ [][PnlNext]_vars

\* ------------------------------- levels and exits in floats (SpecLevelPnl)
\* Risk budgets (stop_loss_usd) and the multipliers a signal carries, as
\* floats.
FloatBudgets == { ToFloat(5, 1), ToFloat(10, 1) }
FloatMultipliers == { ToFloat(1, 1), ToFloat(2, 1), ToFloat(3, 1) }

\* SpecLevelPnl: a signal of each side on a bar closing at each entry price,
\* before _open_position.
LevelPnlInit ==
    /\ Constructed(Configuration("indicators_only", None, None, None))
    /\ \E ct \in FloatContracts, side \in {"LONG", "SHORT"},
          entry_price \in EntryPrices, budget \in FloatBudgets,
          sl \in FloatMultipliers, tp \in FloatMultipliers :
          conv = [stage |-> "signal", contract |-> ct, side |-> side,
                  quantity |-> 1, entry_price |-> entry_price,
                  stop_loss_usd |-> budget, sl_multiplier |-> sl,
                  tp_multiplier |-> tp]
    /\ engines = None
    /\ call = None

\* _open_position places the levels.
LevelPnlOpen ==
    /\ conv.stage = "signal"
    /\ LET stop_loss_usd == FloatMul(conv.stop_loss_usd, conv.sl_multiplier)
           ticks_sl == FloatDiv(stop_loss_usd, conv.contract.tick_value)
           distance_sl == FloatMul(ticks_sl, conv.contract.tick_size)
           target == FloatMul(distance_sl, conv.tp_multiplier)
       IN  conv' = [stage |-> "open",
                    stop_loss |-> IF conv.side = "LONG"
                                  THEN FloatSub(conv.entry_price, distance_sl)
                                  ELSE FloatAdd(conv.entry_price, distance_sl),
                    take_profit |-> IF conv.side = "LONG"
                                    THEN FloatAdd(conv.entry_price, target)
                                    ELSE FloatSub(conv.entry_price, target)]
                   @@ conv
    /\ UNCHANGED << config, bars, i, pc, signal, ledger, results, engines, call >>

\* _check_position_exits on a bar that reaches a level: the exit is at the
\* level, wherever the low and the high of the bar are beyond it.
LevelPnlExit ==
    /\ conv.stage = "open"
    /\ \E reason \in {"STOP_LOSS", "TAKE_PROFIT"} :
          conv' = [stage |-> "exit", exit_reason |-> reason,
                   exit_price |-> IF reason = "STOP_LOSS" THEN conv.stop_loss
                                  ELSE conv.take_profit]
                  @@ conv
    /\ UNCHANGED << config, bars, i, pc, signal, ledger, results, engines, call >>

LevelPnlNext == LevelPnlOpen \/ LevelPnlExit \/ PnlClose

SpecLevelPnl == LevelPnlInit /\ [][LevelPnlNext]_vars

\* ------------------------------------- statistics in floats (SpecStats)
\* The pnl _close_position records on a contract: every exit P + k *
\* tick_size from every entry price, converted as the code converts it.
FloatPnls(ct) ==
    { FloatPnl(FloatTicks("LONG", entry_price,
                          FloatAdd(entry_price,
                                   FloatMul(ToFloat(k, 1), ct.tick_size)),
                          ct.tick_size),
               ct.tick_value, 1) :
        entry_price \in EntryPrices, k \in (0 - MaxK)..MaxK }

\* _calculate_results on a non-empty trade log, as Python evaluates it; the
\* win rate is kept as the fraction it divides.
float_calculate_results(ts) ==
    LET pnls == [k \in 1..Len(ts) |-> ts[k].pnl]
        winning_trades == SelectSeq(pnls, LAMBDA x : x > 0)
        losing_trades == SelectSeq(pnls, LAMBDA x : x < 0)
    IN  [total_trades |-> Len(ts),
         winning_trades |-> Len(winning_trades),
         losing_trades |-> Len(losing_trades),
         total_pnl |-> FloatSum(0, pnls),
         gross_profit |-> FloatSum(0, winning_trades),
         gross_loss |-> Abs(FloatSum(0, losing_trades)),
         win_rate |-> Frac(Len(winning_trades), Len(ts))]

\* SpecStats: an engine whose run recorded a log of 1 to MaxTrades trades
\* on one contract, before _calculate_results.
StatsInit ==
    /\ Constructed(Configuration("indicators_only", None, None, None))
    /\ \E ct \in FloatContracts, n \in 1..MaxTrades :
          \E log \in [1..n -> FloatPnls(ct)] :
             conv = [stage |-> "log", contract |-> ct,
                     trades |-> [k \in 1..n |-> [pnl |-> log[k]]]]
    /\ engines = None
    /\ call = None

\* results = self._calculate_results()
StatsCalculate ==
    /\ conv.stage = "log"
    /\ conv' = [stage |-> "results",
                results |-> float_calculate_results(conv.trades)] @@ conv
    /\ UNCHANGED << config, bars, i, pc, signal, ledger, results, engines, call >>

StatsNext == StatsCalculate

SpecStats == StatsInit /\ [][StatsNext]_vars

\* ----------------------------------- the training environment (SpecEnv)
\* TradingEnv as one record: its constructor arguments and its state.  Prices
\* are whole ticks (tick_size 1), amounts whole units.
EnvCloses == {20, 22, 24}

\* Constructor arguments: a budget of two ticks a contract, and a budget
\* below one tick (int() cuts the stop and the target distance to 0 ticks).
EnvArguments ==
    { [max_positions |-> 2, stop_loss_usd |-> 100, take_profit_ratio |-> 1,
       tick_size |-> 1, tick_value |-> 50, commission |-> 2,
       lookback_window |-> 1, initial_capital |-> 50000],
      [max_positions |-> 1, stop_loss_usd |-> 20, take_profit_ratio |-> 1,
       tick_size |-> 1, tick_value |-> 50, commission |-> 2,
       lookback_window |-> 1, initial_capital |-> 50000] }

\* Actions of the agent: action_type 0, 1 or 2, position_size in
\* thousandths, the two multipliers.
EnvActions ==
    { [action_type |-> 2, position_size |-> 100, sl_multiplier |-> 1,
       tp_multiplier |-> 2] }
    \cup [action_type : {0, 1}, position_size : {100, 1000},
          sl_multiplier : {1, 2}, tp_multiplier : {2}]

\* reset()
env_reset(args, bars_data) ==
    [stage |-> "env", args |-> args, bars_data |-> bars_data,
     current_step |-> args.lookback_window,
     balance |-> args.initial_capital, equity |-> args.initial_capital,
     positions |-> << >>, trades_history |-> << >>,
     max_drawdown |-> Zero, peak_equity |-> args.initial_capital,
     total_trades |-> 0, winning_trades |-> 0, losing_trades |-> 0]

\* if pos['side'] == 'SHORT': ticks = -ticks
EnvSign(side) == IF side = "LONG" THEN 1 ELSE -1

\* ticks * tick_value * quantity of a position at a price.
EnvPnl(env, pos, price) ==
    LET ticks == (price - pos.entry_price) \div env.args.tick_size
    IN  EnvSign(pos.side) * ticks * env.args.tick_value * pos.quantity

\* TradingEnv._close_position
env_close_position(env, pos, exit_price, exit_reason) ==
    LET pnl == EnvPnl(env, pos, exit_price) - env.args.commission
        trade == [side |-> pos.side, quantity |-> pos.quantity,
                  entry_price |-> pos.entry_price, exit_price |-> exit_price,
                  pnl |-> pnl, exit_reason |-> exit_reason,
                  duration |-> env.current_step - pos.entry_step]
    IN  [env EXCEPT !.trades_history = Append(@, trade),
                    !.balance = @ + pnl,
                    !.total_trades = @ + 1,
                    !.winning_trades = IF pnl > 0 THEN @ + 1 ELSE @,
                    !.losing_trades = IF pnl > 0 THEN @ ELSE @ + 1]

HitStop(pos, current_price) ==
    IF pos.side = "LONG" THEN current_price <= pos.stop_loss
    ELSE current_price >= pos.stop_loss

HitTarget(pos, current_price) ==
    IF pos.side = "LONG" THEN current_price >= pos.take_profit
    ELSE current_price <= pos.take_profit

\* The loop of _update_positions from position k on: the unrealized P&L of
\* each position, and the close of those at their stop or target.
RECURSIVE env_update_from(_, _, _)
env_update_from(env, k, current_price) ==
    IF k > Len(env.positions) THEN env
    ELSE
      LET pos == env.positions[k]
          marked == [env EXCEPT !.positions[k].unrealized_pnl =
                                    EnvPnl(env, pos, current_price)]
          hit_sl == HitStop(pos, current_price)
          hit_tp == HitTarget(pos, current_price)
      IN  IF hit_sl \/ hit_tp
          THEN env_update_from(
                   env_close_position(
                       [marked EXCEPT !.positions[k].closing = TRUE],
                       pos,
                       IF hit_sl THEN pos.stop_loss ELSE pos.take_profit,
                       IF hit_sl THEN "Stop Loss" ELSE "Take Profit"),
                   k + 1, current_price)
          ELSE env_update_from(marked, k + 1, current_price)

\* TradingEnv._update_positions: the loop, then the closed positions are
\* deleted from the list.
env_update_positions(env, current_price) ==
    LET looped == env_update_from(env, 1, current_price)
    IN  [looped EXCEPT !.positions = SelectSeq(@, LAMBDA pos : ~pos.closing)]

\* TradingEnv._open_position
env_open_position(env, action, entry_price) ==
    LET side == IF action.action_type = 0 THEN "LONG" ELSE "SHORT"
        contracts == (action.position_size * 3) \div 1000
        quantity == IF contracts > 1 THEN contracts ELSE 1
        total_sl == env.args.stop_loss_usd * action.sl_multiplier
        sl_ticks == (total_sl \div quantity) \div env.args.tick_value
        total_tp == total_sl * env.args.take_profit_ratio * action.tp_multiplier
        tp_ticks == (total_tp \div quantity) \div env.args.tick_value
        position ==
            [id |-> Len(env.positions), side |-> side, quantity |-> quantity,
             entry_price |-> entry_price, entry_step |-> env.current_step,
             stop_loss |-> entry_price
                           - EnvSign(side) * sl_ticks * env.args.tick_size,
             take_profit |-> entry_price
                             + EnvSign(side) * tp_ticks * env.args.tick_size,
             unrealized_pnl |-> 0, closing |-> FALSE]
    IN  [env EXCEPT !.positions = Append(@, position),
                    !.balance = @ - env.args.commission]

RECURSIVE SumUnrealized(_)
SumUnrealized(ps) ==
    IF ps = << >> THEN 0 ELSE Head(ps).unrealized_pnl + SumUnrealized(Tail(ps))

\* TradingEnv._update_equity; the drawdown is kept as the fraction it
\* divides.
env_update_equity(env) ==
    LET equity == env.balance + SumUnrealized(env.positions)
        peak_equity == IF equity > env.peak_equity THEN equity
                       ELSE env.peak_equity
        drawdown == Frac(peak_equity - equity, peak_equity)
    IN  [env EXCEPT !.equity = equity, !.peak_equity = peak_equity,
                    !.max_drawdown = IF FracLT(@, drawdown) THEN drawdown
                                     ELSE @]

\* The entry of step(): if the action is not FLAT and there is room.
env_entry(env, action, current_price) ==
    IF action.action_type \in {0, 1}
       /\ Len(env.positions) < env.args.max_positions
    THEN env_open_position(env, action, current_price)
    ELSE env

\* A mutant for C34: the entry comes before the stop/target check.
env_step_entry_first(env, action) ==
    LET current_price == env.bars_data[env.current_step + 1].close
        moved == env_update_equity(
                     env_update_positions(
                         env_entry(env, action, current_price),
                         current_price))
    IN  [moved EXCEPT !.current_step = @ + 1]

\* TradingEnv.step: the state it leaves (the reward and the observation it
\* returns are not followed).
env_step(env, action) ==
    LET current_price == env.bars_data[env.current_step + 1].close
        moved == env_update_equity(
                     env_entry(env_update_positions(env, current_price),
                               action, current_price))
    IN  [moved EXCEPT !.current_step = @ + 1]

\* SpecEnv: the environment after reset() on an episode of 2 to MaxEnvBars
\* bars.
EnvInit ==
    /\ Constructed(Configuration("indicators_only", None, None, None))
    /\ conv = None
    /\ engines = None
    /\ \E args \in EnvArguments, n \in 2..MaxEnvBars :
          \E closes \in [1..n -> EnvCloses] :
             call = env_reset(args, [k \in 1..n |-> [close |-> closes[k]]])

\* A call of step(action); past the last bar self.bars_data[...] raises
\* IndexError before anything changes.
EnvStep ==
    /\ call.current_step < Len(call.bars_data)
    /\ \E action \in EnvActions : call' = env_step(call, action)
    /\ UNCHANGED << config, bars, i, pc, signal, ledger, results, conv,
                    engines >>

EnvNext == EnvStep

SpecEnv == EnvInit /\ [][EnvNext]_vars

\* ================================================================ claims
IsOpen(position) == position.status = "OPEN"
CurrentBar == BarAt(bars, i)

\* The series that differ from bs in the bar at one index.
Alternatives(bs) ==
    { [bs EXCEPT ![k] = [timestamp |-> k - 1, low |-> sh.low,
                         high |-> sh.high, close |-> sh.close]] :
        k \in 1..Len(bs), sh \in BarShapes }

\* Two series agree at every Python index below k.
AgreeBelow(a, b, k) == \A j \in 0..(k - 1) : BarAt(a, j) = BarAt(b, j)

\* The signal a run over the series bs computes at step k.
SignalAt(bs, k) ==
    generate_signals_parallel(mode, model, indicator_config, WindowBars(bs, k))

C2_PositionGuard ==
    /\ [](OpenCount(positions) <= MaxPositions(bot_config))
    /\ [][(pc = "open" /\ OpenCount(positions) = MaxPositions(bot_config))
            => positions' = positions]_vars

\* An entry was attempted and rejected at the default limit of 3.
C2_Witness ==
    /\ bot_config = None
    /\ OpenCount(positions) = DefaultMaxPositions
    /\ pc \in {"signal", "close"}
    /\ i > WindowSize
    /\ signal.signal \in {"LONG", "SHORT"}
    /\ signal.confidence >= MinConfidence(indicator_config, bot_config)
    /\ \A p \in 1..Len(positions) : positions[p].entry_time < i - 1

\* C3: when run() returns, no position is OPEN and the trade log has exactly
\* one trade per position opened.
C3_NoDanglingPositions ==
    pc = "done" =>
        /\ \A p \in 1..Len(positions) : ~IsOpen(positions[p])
        /\ Len(trades) = Len(positions)

\* A run returned with a trade closed by a stop and one closed at the end.
C3_Witness ==
    /\ pc = "done"
    /\ \E k \in 1..Len(trades) : trades[k].exit_reason = "STOP_LOSS"
    /\ \E k \in 1..Len(trades) : trades[k].exit_reason = EndReason

\* What the closing step of run() does to the positions that are OPEN.
ClosedAtEndWith(reason) ==
    pc = "close" =>
        \A p \in 1..Len(positions) :
            IsOpen(positions[p]) =>
                /\ positions'[p].status = "CLOSED"
                /\ positions'[p].exit_price = bars[Len(bars)].close
                /\ positions'[p].exit_time = bars[Len(bars)].timestamp
                /\ positions'[p].exit_reason = reason

ClosedAs(position, reason, price) ==
    /\ position.status = "CLOSED"
    /\ position.exit_reason = reason
    /\ position.exit_price = price

\* C6: at the exit check of a bar every OPEN LONG exits at its stop_loss as
\* STOP_LOSS if bar.low <= stop_loss, otherwise at its take_profit as
\* TAKE_PROFIT if bar.high >= take_profit, otherwise stays OPEN; a SHORT
\* exits at stop_loss if bar.high >= stop_loss, otherwise at take_profit if
\* bar.low <= take_profit; a bar spanning both levels closes as STOP_LOSS.
C6_ExitRule ==
    [][pc = "exits" =>
        \A p \in 1..Len(positions) :
            LET before == positions[p]
                after == positions'[p]
                bar == CurrentBar
                stopped == IF before.side = "LONG"
                           THEN bar.low <= before.stop_loss
                           ELSE bar.high >= before.stop_loss
                reached == IF before.side = "LONG"
                           THEN bar.high >= before.take_profit
                           ELSE bar.low <= before.take_profit
            IN  IsOpen(before) =>
                    IF stopped
                    THEN ClosedAs(after, "STOP_LOSS", before.stop_loss)
                    ELSE IF reached
                    THEN ClosedAs(after, "TAKE_PROFIT", before.take_profit)
                    ELSE after = before]_vars

\* The exit check of the current bar closed a position as STOP_LOSS although
\* the bar also reached its target.
C6_Witness ==
    /\ pc = "open"
    /\ \E p \in 1..Len(positions) :
          /\ ClosedAs(positions[p], "STOP_LOSS", positions[p].stop_loss)
          /\ positions[p].exit_time = CurrentBar.timestamp
          /\ IF positions[p].side = "LONG"
             THEN CurrentBar.high >= positions[p].take_profit
             ELSE CurrentBar.low <= positions[p].take_profit

\* C7 as stated, its last part: every trade was closed at a strictly later
\* bar than it was opened at.
C7_ClosedAtLaterBar ==
    \A k \in 1..Len(trades) : trades[k].exit_time > trades[k].entry_time

\* C7 amended: in an iteration the exit check runs before the entry (the
\* exit check opens nothing, the entry step closes nothing and stamps the
\* new position with the current bar), a trade closed as STOP_LOSS or
\* TAKE_PROFIT was closed at a strictly later bar than it was opened at, and
\* no trade was closed at an earlier bar: only the closing step after the
\* loop closes a position at the bar it was opened at.
C7_ExitsBeforeEntries ==
    /\ [](\A k \in 1..Len(trades) :
            /\ trades[k].exit_time >= trades[k].entry_time
            /\ trades[k].exit_reason \in {"STOP_LOSS", "TAKE_PROFIT"}
                   => trades[k].exit_time > trades[k].entry_time)
    /\ [][pc = "exits" =>
            /\ pc' = "open" /\ i' = i
            /\ Len(positions') = Len(positions)]_vars
    /\ [][pc = "open" =>
            /\ Len(trades') = Len(trades)
            /\ \A p \in 1..Len(positions) : positions'[p] = positions[p]
            /\ \A p \in (Len(positions) + 1)..Len(positions') :
                  /\ IsOpen(positions'[p])
                  /\ positions'[p].entry_time = CurrentBar.timestamp]_vars

\* A run with a stopped trade and a trade opened and closed at the final bar.
C7_Witness ==
    /\ pc = "done"
    /\ \E k \in 1..Len(trades) :
          /\ trades[k].exit_reason \in {"STOP_LOSS", "TAKE_PROFIT"}
          /\ trades[k].exit_time = trades[k].entry_time + 1
    /\ \E k \in 1..Len(trades) :
          /\ trades[k].exit_reason = EndReason
          /\ trades[k].exit_time = trades[k].entry_time

\* C8: when the loader returned no bars, run() has ended with the data error
\* and holds no position, no trade, no equity point and no statistics.
C8_EmptyDataIsError ==
    (pc # "start" /\ bars = << >>) =>
        /\ pc = "error"
        /\ positions = << >>
        /\ trades = << >>
        /\ equity_curve = << >>
        /\ results = None

\* The run ended with the data error.
C8_Witness == pc = "error" /\ bars = << >>

\* C9: the returned profit_factor is +infinity when the trade log has no
\* losing trade and a positive gross profit; with an empty trade log every
\* reported statistic is zero.
C9_ProfitFactorBoundary ==
    pc = "done" =>
        /\ ( /\ \A k \in 1..Len(trades) : trades[k].pnl >= 0
             /\ \E k \in 1..Len(trades) : trades[k].pnl > 0 )
           => results.profit_factor = Infinity
        /\ trades = << >> =>
             /\ results.total_trades = 0
             /\ results.winning_trades = 0
             /\ results.losing_trades = 0
             /\ results.total_pnl = 0
             /\ results.win_rate = Zero
             /\ results.profit_factor = Zero
             /\ results.max_drawdown = 0

\* A run returned with winning trades only.
C9_Witness ==
    /\ pc = "done"
    /\ Len(trades) >= 2
    /\ \A k \in 1..Len(trades) : trades[k].pnl >= 0
    /\ \E k \in 1..Len(trades) : trades[k].pnl > 0

\* C10: the returned profit_factor is zero whenever no trade of the log has
\* a profit and none has a loss, the log being empty or not.
C10_ProfitFactorZeroWithoutPnl ==
    (pc = "done" /\ \A k \in 1..Len(trades) : trades[k].pnl = 0) =>
        /\ results.profit_factor.num = 0
        /\ results.profit_factor.den # 0

\* The sign of the P&L of a side for an exit k ticks above the entry.
SideSign(side) == IF side = "LONG" THEN 1 ELSE -1

\* C5: a position closed at P + k * tick_size records ticks == k and
\* pnl == k * tick_value * quantity when LONG, and the negated values when
\* SHORT, for every integer k.
C5_PnlConversionExact ==
    conv.stage = "closed" =>
        /\ conv.ticks = SideSign(conv.side) * conv.k * FloatScale
        /\ conv.pnl =
             SideSign(conv.side) * conv.k * conv.contract.tick_value * conv.quantity

\* On a tick size of 0.25 the conversion of SpecPnl is exact: the rounding on
\* the tick size 0.1 is what breaks C5.
PnlExactOnDyadicTick ==
    (conv.stage = "closed" /\ conv.contract.dyadic) =>
        /\ conv.ticks = SideSign(conv.side) * conv.k * FloatScale
        /\ conv.pnl =
             SideSign(conv.side) * conv.k * conv.contract.tick_value * conv.quantity

\* C11: with mode bot_only and no policy model (none given, or PPO.load
\* failed) the run aborts with a failure: it returns no result.
C11_ModelOnlyNeedsModel ==
    (mode = "bot_only" /\ model = None) => results = None

\* In the other modes a run without a policy model is not aborted: once
\* bars are loaded it goes on to return its results.
RunsWithoutModel ==
    (mode # "bot_only" /\ model = None /\ bars # << >>) => pc # "error"

\* A configuration the engine is to reject.
InvalidConfiguration ==
    \/ timeframes = << >>
    \/ contract.tick_size <= 0
    \/ contract.tick_value <= 0

\* C12: an engine with an empty timeframe list or a contract whose tick_size
\* or tick_value is not positive is rejected before the first bar is
\* evaluated: its run loads no bars, never enters the per-bar loop and
\* builds no position, trade or equity point.
C12_ConfigurationErrorsFailFast ==
    InvalidConfiguration =>
        /\ pc \in {"start", "error"}
        /\ bars = << >>
        /\ positions = << >> /\ trades = << >> /\ equity_curve = << >>

\* The part of C12 the code keeps: an empty timeframe list ends run() with
\* an error before any bar is loaded.
EmptyTimeframesRejected ==
    timeframes = << >> => (pc \in {"start", "error"} /\ bars = << >>)

\* A run on a contract with tick_size 0 failed inside _close_position: the
\* position is stamped CLOSED and no trade was recorded.
ZeroTickFailsInClose ==
    /\ pc = "error"
    /\ contract.tick_size = 0
    /\ \E p \in 1..Len(positions) : positions[p].status = "CLOSED"
    /\ trades = << >>

\* A run on a contract with a negative tick_size returned results.
NegativeTickReturns ==
    pc = "done" /\ contract.tick_size < 0 /\ trades # << >>

\* The instance as __init__ left it: its configuration and reference data
\* with a new ledger.
Fresh(e) ==
    [e EXCEPT !.bars = << >>, !.i = 0, !.pc = "start", !.signal = None,
              !.positions = << >>, !.trades = << >>,
              !.balance = InitialBalance, !.peak_balance = InitialBalance,
              !.max_drawdown = 0, !.equity_curve = << >>, !.results = None]

\* The instance at the end of a run nothing else is interleaved with.
RECURSIVE RunAlone(_)
RunAlone(e) == IF Finished(e) THEN e ELSE RunAlone(RunStep(e))

\* C13: however the steps of two instances are interleaved, each instance
\* goes on to the positions, trades, balance, peak balance, max drawdown
\* and statistics of its run alone, and a step of one instance changes no
\* attribute of the other.
C13_RunIndependence ==
    /\ [](\A k \in 1..2 :
            RunAlone(engines[k]) = RunAlone(Fresh(engines[k])))
    /\ [][\A k \in 1..2 :
            engines'[k] # engines[k] =>
                \A j \in 1..2 : j # k => engines'[j] = engines[j]]_vars

\* Both instances traded and returned while the other was in its loop
\* before: the second finished its run with positions of its own contract.
C13_Witness ==
    /\ engines[1].pc = "done" /\ engines[2].pc = "done"
    /\ engines[1].trades # << >> /\ engines[2].trades # << >>
    /\ engines[1].contract # engines[2].contract
    /\ engines[1].results.total_pnl # engines[2].results.total_pnl

\* C14: a call of any indicator function on a bar series shorter than the
\* function's minimum lookback (the empty and the one-bar series included)
\* completes without raising, and every array it returns has the length of
\* the series.
C14_IndicatorFallback ==
    call.stage = "returned" =>
        /\ call.outcome.raised = None
        /\ call.outcome.arrays # << >>
        /\ \A a \in 1..Len(call.outcome.arrays) :
              Len(call.outcome.arrays[a]) = Len(call.bars)

\* The functions other than the Bollinger bands keep C14.
FallbackExceptBollinger ==
    (call.stage = "returned" /\ call.indicator # "BB") =>
        /\ call.outcome.raised = None
        /\ \A a \in 1..Len(call.outcome.arrays) :
              Len(call.outcome.arrays[a]) = Len(call.bars)

\* C15 as stated: the run over the rising series records at least one LONG
\* trade and ends with a final balance above the initial balance and a
\* max_drawdown of 0.
C15_UptrendTrades ==
    engines[1].pc = "done" =>
        /\ \E k \in 1..Len(engines[1].trades) :
              engines[1].trades[k].side = "LONG"
        /\ engines[1].results.final_balance > InitialBalance
        /\ engines[1].results.max_drawdown = 0

\* C15 amended: on the rising series the fast average is above the slow
\* one at every bar, the averages never cross and every signal is NEUTRAL:
\* the run records no position and no trade and ends with the initial
\* balance and a max_drawdown of 0.
C15_UptrendNeverCrosses ==
    /\ engines[1].signal # None => engines[1].signal.signal = "NEUTRAL"
    /\ engines[1].positions = << >>
    /\ engines[1].pc = "done" =>
          /\ engines[1].results.total_trades = 0
          /\ engines[1].results.final_balance = InitialBalance
          /\ engines[1].results.max_drawdown = 0

\* The run over the longest rising series returned.
C15_Witness ==
    /\ engines[1].pc = "done"
    /\ Len(engines[1].bars) = UptrendBars
    /\ engines[1].i = UptrendBars
    /\ \A k \in 2..UptrendBars :
          engines[1].bars[k].close > engines[1].bars[k - 1].close

\* The two signals the combiner of the current iteration was given.
BotSignal == generate_bot_signal(model, WindowBars(bars, i))
IndicatorSignal == generate_indicator_signal(indicator_config, WindowBars(bars, i))

\* Both signals are present and have the same non-neutral direction.
Agreement(b, d) ==
    /\ b # None /\ d # None
    /\ b.signal \in {"LONG", "SHORT"}
    /\ b.signal = d.signal

\* C16: in mode bot_indicators the combined signal is LONG or SHORT only if
\* the model signal and the rule-based signal are both present and have the
\* same non-neutral direction, and its confidence is then the arithmetic
\* mean of the two confidences; in every other case it is NEUTRAL with
\* confidence 0.
C16_Combiner ==
    (pc = "exits" /\ mode = "bot_indicators") =>
        IF Agreement(BotSignal, IndicatorSignal)
        THEN /\ signal.signal = BotSignal.signal
             /\ 2 * signal.confidence
                  = BotSignal.confidence + IndicatorSignal.confidence
        ELSE /\ signal.signal = "NEUTRAL"
             /\ signal.confidence = 0

\* The combiner was given two SHORT signals of different confidences.
C16_Witness ==
    /\ pc = "exits" /\ mode = "bot_indicators"
    /\ signal.signal = "SHORT"
    /\ BotSignal.confidence < signal.confidence
    /\ signal.confidence < IndicatorSignal.confidence

\* The combiner was given one non-neutral signal and a missing or an
\* opposite one.
CombinerRefuses ==
    /\ pc = "exits" /\ mode = "bot_indicators"
    /\ signal.signal = "NEUTRAL"
    /\ \/ BotSignal = None /\ IndicatorSignal.signal = "LONG"
       \/ IndicatorSignal = None /\ BotSignal.signal = "LONG"
       \/ BotSignal # None /\ IndicatorSignal # None
          /\ BotSignal.signal = "SHORT" /\ IndicatorSignal.signal = "LONG"

\* The votes of a list for one side, and the sum of their confidences.
VotesFor(votes, side) == SelectSeq(votes, LAMBDA v : v.signal = side)

RECURSIVE SumOf(_)
SumOf(votes) ==
    IF votes = << >> THEN 0 ELSE Head(votes).confidence + SumOf(Tail(votes))

\* C17: generate_signal returns LONG when the LONG votes strictly outnumber
\* the SHORT votes, SHORT when the SHORT votes strictly outnumber the LONG
\* votes, and NEUTRAL with confidence 0 on a tie or without votes; the
\* confidence of a LONG or SHORT result is the mean of the confidences of
\* the votes for that side, and every enabled indicator has cast at most one
\* vote (a disabled one none).
C17_MajorityVote ==
    call.stage = "returned" =>
        LET long == VotesFor(call.votes, "LONG")
            short == VotesFor(call.votes, "SHORT")
        IN  /\ Len(long) > Len(short) =>
                  /\ call.result.signal = "LONG"
                  /\ call.result.confidence * Len(long) = SumOf(long)
            /\ Len(short) > Len(long) =>
                  /\ call.result.signal = "SHORT"
                  /\ call.result.confidence * Len(short) = SumOf(short)
            /\ Len(long) = Len(short) =>
                  /\ call.result.signal = "NEUTRAL"
                  /\ call.result.confidence = 0
            /\ \A name \in DOMAIN call.use :
                  Cardinality({k \in 1..Len(call.votes) :
                                  call.votes[k].indicator = name})
                      <= IF call.use[name] THEN 1 ELSE 0

\* Two LONG votes of different confidences won against one SHORT vote, cast
\* by sections on which several conditions held.
C17_Witness ==
    /\ call.stage = "returned"
    /\ Len(call.votes) = 3
    /\ call.result.signal = "LONG"
    /\ \E a, b \in 1..3 :
          /\ call.votes[a].signal = "LONG" /\ call.votes[b].signal = "LONG"
          /\ call.votes[a].confidence < call.result.confidence
          /\ call.result.confidence < call.votes[b].confidence
    /\ \E name \in DOMAIN call.use : Cardinality(call.conditions[name]) > 1

\* The votes were tied.
VotesTied ==
    /\ call.stage = "returned"
    /\ Len(call.votes) = 2
    /\ call.result.signal = "NEUTRAL"

\* The signal of the current bar passes the confidence test of run().
Confident == signal.confidence >= MinConfidence(indicator_config, bot_config)

\* A position was opened at the bar the loop has just left.
OpenedAtLastBar ==
    \E p \in 1..Len(positions) :
        positions[p].entry_time = BarAt(bars, i - 1).timestamp

\* C18: a step adds a position only when it is the entry step of a bar whose
\* signal is LONG or SHORT with a confidence of at least the configured
\* minimum; the entry step of a NEUTRAL signal, whatever its confidence, and
\* of a signal below the minimum leaves the positions as they are.
C18_OpenGuard ==
    [][/\ Len(positions') > Len(positions) =>
             /\ pc = "open"
             /\ signal.signal \in {"LONG", "SHORT"}
             /\ Confident
       /\ (pc = "open" /\ (signal.signal = "NEUTRAL" \/ ~Confident)) =>
             positions' = positions]_vars

\* The entry step opened a position on a SHORT signal that reaches the
\* minimum confidence.
C18_Witness ==
    /\ pc \in {"signal", "close"}
    /\ i > WindowSize
    /\ OpenedAtLastBar
    /\ signal.signal = "SHORT"
    /\ Confident

\* The entry step saw a NEUTRAL signal above the minimum confidence, with
\* room for a position, and opened none.
NeutralNeverOpens ==
    /\ pc \in {"signal", "close"}
    /\ i > WindowSize
    /\ signal.signal = "NEUTRAL"
    /\ Confident
    /\ positions = << >>

\* The entry step saw a LONG or SHORT signal below the minimum confidence,
\* with room for a position, and opened none.
BelowMinimumNeverOpens ==
    /\ pc \in {"signal", "close"}
    /\ i > WindowSize
    /\ signal.signal \in {"LONG", "SHORT"}
    /\ ~Confident
    /\ positions = << >>

\* The exit fields _close_position stamps on a position.
ExitFields == {"exit_price", "exit_time", "exit_reason"}

ClosedCount(ps) == Cardinality({k \in 1..Len(ps) : ps[k].status = "CLOSED"})

\* C19: a position is OPEN or CLOSED, and CLOSED exactly when it carries
\* exit_price, exit_time and exit_reason; a CLOSED position is never changed
\* again (it does not reopen and is not closed a second time: there is one
\* trade per CLOSED position), no step removes a position, and when the run
\* has returned every position has made its transition to CLOSED.
C19_PositionLifecycle ==
    /\ [](\A p \in 1..Len(positions) :
            /\ positions[p].status \in {"OPEN", "CLOSED"}
            /\ positions[p].status = "CLOSED"
                  <=> ExitFields \subseteq DOMAIN positions[p]
            /\ positions[p].status = "OPEN"
                  <=> ExitFields \cap DOMAIN positions[p] = {})
    /\ [](Len(trades) = ClosedCount(positions))
    /\ [](pc = "done" => \A p \in 1..Len(positions) :
                            positions[p].status = "CLOSED")
    /\ [][/\ Len(positions') >= Len(positions)
          /\ \A p \in 1..Len(positions) :
                positions[p].status = "CLOSED" => positions'[p] = positions[p]]_vars

\* A position closed at one bar went through the exit check of a later bar
\* that reaches one of its levels again, after a second position had been
\* closed as well.
C19_Witness ==
    /\ pc = "open"
    /\ ClosedCount(positions) >= 2
    /\ \E p \in 1..Len(positions) :
          /\ positions[p].status = "CLOSED"
          /\ positions[p].exit_time < BarAt(bars, i).timestamp
          /\ ExitDecision(positions[p], BarAt(bars, i)) # None

\* The positions closed between the position lists ps and qs of two
\* successive states.
Closing(ps, qs) ==
    {p \in 1..Len(ps) : ps[p].status = "OPEN" /\ qs[p].status = "CLOSED"}

\* The trades appended between the trade logs ts and us.
Appended(ts, us) == SubSeq(us, Len(ts) + 1, Len(us))

\* The frame of the closes of one step, from positions ps, trades ts and
\* balance b to qs, us and c.
CloseFrame(ps, qs, ts, us, b, c) ==
    /\ Len(us) = Len(ts) + Cardinality(Closing(ps, qs))
    /\ SubSeq(us, 1, Len(ts)) = ts
    /\ c = b + SumPnl(Appended(ts, us))
    /\ Closing(ps, qs) # {} =>
          /\ Len(qs) = Len(ps)
          /\ \A p \in 1..Len(ps) :
                IF p \in Closing(ps, qs)
                THEN /\ DOMAIN qs[p] = DOMAIN ps[p] \cup ExitFields
                     /\ \A f \in DOMAIN ps[p] \ {"status"} : qs[p][f] = ps[p][f]
                     /\ \E k \in 1..Len(Appended(ts, us)) :
                           /\ Appended(ts, us)[k].entry_time = ps[p].entry_time
                           /\ Appended(ts, us)[k].side = ps[p].side
                           /\ Appended(ts, us)[k].exit_price = qs[p].exit_price
                           /\ Appended(ts, us)[k].exit_reason = qs[p].exit_reason
                ELSE qs[p] = ps[p]

\* C20: a step that closes positions changes, of each of them, the status
\* and the exit fields only (side, entry_price, entry_time, stop_loss,
\* take_profit and the rest stay), leaves every other position as it is,
\* appends one trade per closed position to the end of the trade log, each
\* carrying the exit of its position, and adds the pnl of those trades to
\* the balance; no step changes or removes a trade recorded before.
C20_CloseFrame ==
    [][CloseFrame(engines[1].positions, engines'[1].positions,
                  engines[1].trades, engines'[1].trades,
                  engines[1].balance, engines'[1].balance)]_vars

\* The same frame on the runs of Spec.
CloseFrameOfRun ==
    [][CloseFrame(positions, positions', trades, trades', balance, balance')]_vars

\* The exit check has just closed one position at its take-profit while an
\* older position stays open and an earlier trade is on the log.
C20_Witness ==
    LET e == engines[1]
        now == BarAt(e.bars, e.i).timestamp
    IN  /\ e.pc = "open"
        /\ Len(e.trades) >= 2
        /\ e.trades[Len(e.trades)].exit_time = now
        /\ e.trades[Len(e.trades)].exit_reason = "TAKE_PROFIT"
        /\ e.trades[Len(e.trades) - 1].exit_time < now
        /\ \E p \in 1..Len(e.positions) :
              /\ e.positions[p].status = "OPEN"
              /\ e.positions[p].entry_time < e.trades[Len(e.trades)].entry_time

\* One exit check closed two positions and left a third one open.
TwoClosedOneLeft ==
    LET e == engines[1]
        now == BarAt(e.bars, e.i).timestamp
    IN  /\ e.pc = "open"
        /\ Cardinality({p \in 1..Len(e.positions) :
                           /\ e.positions[p].status = "CLOSED"
                           /\ e.positions[p].exit_time = now}) = 2
        /\ \E p \in 1..Len(e.positions) : e.positions[p].status = "OPEN"

\* The model gives no signal for the bar at index k of engine e: no model is
\* loaded, or inference raises on the window of that bar.
NoModelSignal(e, k) ==
    \/ e.model = None
    \/ Predict(e.model, WindowBars(e.bars, k)) = InferenceError

\* C21: when no model is loaded or inference raises for the window of a bar,
\* the signal of that bar is NEUTRAL with confidence 0 and the entry step of
\* that bar opens no position; the run never ends in an error, and when it
\* has returned every bar up to the last has been evaluated.
C21_ModelDegradation ==
    LET e == engines[1]
    IN  /\ (e.pc \in {"exits", "open"} /\ NoModelSignal(e, e.i)) =>
              e.signal = NeutralSignal
        /\ (e.pc \in {"signal", "close"} /\ e.i > WindowSize
               /\ NoModelSignal(e, e.i - 1)) =>
              \A p \in 1..Len(e.positions) :
                  e.positions[p].entry_time # BarAt(e.bars, e.i - 1).timestamp
        /\ e.pc # "error"
        /\ e.pc = "done" => e.i = Len(e.bars) /\ e.results # None

\* The run returned after an inference that raised at one bar and, at a
\* later bar, an inference that opened a position.
C21_Witness ==
    LET e == engines[1]
    IN  /\ e.pc = "done"
        /\ e.mode = "bot_only"
        /\ e.model # None
        /\ \E k \in WindowSize..(Len(e.bars) - 2) :
              /\ NoModelSignal(e, k)
              /\ \E p \in 1..Len(e.positions) :
                    e.positions[p].entry_time > BarAt(e.bars, k).timestamp

\* The run of an engine without a model returned over the longest series.
NoModelRunReturns ==
    LET e == engines[1]
    IN  /\ e.pc = "done" /\ e.model = None /\ Len(e.bars) = MaxBars
        /\ e.results.total_trades = 0

\* The hints a signal carries, 1 when it carries none.
StopMultiplier(sig) ==
    IF "sl_multiplier" \in DOMAIN sig THEN sig.sl_multiplier ELSE 1

TargetMultiplier(sig) ==
    IF "tp_multiplier" \in DOMAIN sig THEN sig.tp_multiplier ELSE 1

\* The risk budget and the take-profit ratio of the configuration.
RiskBudget(bc) == IF bc # None THEN bc.stop_loss_usd ELSE DefaultStopLossUsd

TakeProfitRatio(bc) == IF bc # None THEN bc.take_profit_ratio ELSE DefaultTpRatio

\* The stop distance of a position opened on the signal sig.
StopDistance(sig, bc, ct) ==
    ((RiskBudget(bc) * StopMultiplier(sig)) \div ct.tick_value) * ct.tick_size

\* C22: the position an entry step opens has its stop at the stop distance
\* (risk budget / tick_value * tick_size) from the entry price and its target
\* at stop distance * take-profit ratio * the multiplier of the signal (1
\* when the signal carries none): below and above the entry for LONG, above
\* and below for SHORT.
C22_StopTargetPlacement ==
    [][Len(positions') > Len(positions) =>
         LET opened == positions'[Len(positions')]
             stop == StopDistance(signal, bot_config, contract)
             target == stop * TakeProfitRatio(bot_config) * TargetMultiplier(signal)
         IN  /\ opened.entry_price = BarAt(bars, i).close
             /\ IF opened.side = "LONG"
                THEN /\ opened.stop_loss = opened.entry_price - stop
                     /\ opened.take_profit = opened.entry_price + target
                ELSE /\ opened.stop_loss = opened.entry_price + stop
                     /\ opened.take_profit = opened.entry_price - target]_vars

\* What the code places: the multiplier of the signal takes the place of the
\* take-profit ratio, which counts only for a signal without a multiplier.
PlacedWithRatioOrMultiplier ==
    [][Len(positions') > Len(positions) =>
         LET opened == positions'[Len(positions')]
             stop == StopDistance(signal, bot_config, contract)
             target == stop * (IF "tp_multiplier" \in DOMAIN signal
                               THEN signal.tp_multiplier
                               ELSE TakeProfitRatio(bot_config))
         IN  IF opened.side = "LONG"
             THEN /\ opened.stop_loss = opened.entry_price - stop
                  /\ opened.take_profit = opened.entry_price + target
             ELSE /\ opened.stop_loss = opened.entry_price + stop
                  /\ opened.take_profit = opened.entry_price - target]_vars

\* C23: the balance is the initial balance plus the sum of the pnl of the
\* trades recorded so far, and the result of a run has
\* final_balance - initial_balance == total_pnl (as Python evaluates them).
C23_BalanceAccounting ==
    conv.stage = "booked" =>
        /\ conv.final_balance = FloatAdd(conv.initial_balance, conv.total_pnl)
        /\ FloatSub(conv.final_balance, conv.initial_balance) = conv.total_pnl

\* On a tick size that is a power of two the accounting is exact.
BalanceExactOnDyadicTick ==
    (conv.stage = "booked" /\ conv.contract.dyadic) =>
        FloatSub(conv.final_balance, conv.initial_balance) = conv.total_pnl

\* In exact arithmetic the balance of a run is the initial balance plus the
\* sum of the pnl of its trades.
BalanceIsSumOfPnl ==
    /\ balance = InitialBalance + SumPnl(trades)
    /\ pc = "done" =>
          /\ results.final_balance - InitialBalance = results.total_pnl
          /\ results.final_balance = balance

Max(a, b) == IF a > b THEN a ELSE b

\* The balances the run has gone through: the initial balance, then the
\* balance after each close (the equity curve records them in order).
BalancesSoFar ==
    << InitialBalance >>
    \o [k \in 1..Len(trades) |->
            equity_curve[Len(equity_curve) - Len(trades) + k].balance]

\* The highest of the first k balances, and the deepest fall below the
\* highest balance before it among the first k.
RECURSIVE HighWaterMark(_, _)
HighWaterMark(bs, k) ==
    IF k = 1 THEN bs[1] ELSE Max(HighWaterMark(bs, k - 1), bs[k])

RECURSIVE DeepestFall(_, _)
DeepestFall(bs, k) ==
    IF k = 1 THEN 0
    ELSE Max(DeepestFall(bs, k - 1), HighWaterMark(bs, k) - bs[k])

\* C24: peak_balance is never below balance and is the highest balance seen
\* so far, the initial balance included; max_drawdown is the largest
\* peak_balance - balance of the states so far; and no step lowers
\* peak_balance or max_drawdown.
C24_HighWaterMark ==
    /\ [](/\ peak_balance >= balance
          /\ balance = BalancesSoFar[Len(BalancesSoFar)]
          /\ peak_balance = HighWaterMark(BalancesSoFar, Len(BalancesSoFar))
          /\ max_drawdown = DeepestFall(BalancesSoFar, Len(BalancesSoFar)))
    /\ [][peak_balance' >= peak_balance /\ max_drawdown' >= max_drawdown]_vars

\* The balance rose above the initial balance, fell, and has recovered part
\* of the fall: the drawdown on record is deeper than the current one.
C24_Witness ==
    /\ peak_balance > InitialBalance
    /\ balance < peak_balance
    /\ max_drawdown > peak_balance - balance
    /\ Len(trades) >= 3

\* C25: once run() has loaded a non-empty series, the equity curve has one
\* point more than there are trades; its first point carries the timestamp
\* of the first bar, the initial balance and a pnl of 0, the point after the
\* k-th trade the pnl of that trade and the balance after it, and the
\* timestamps never decrease along the curve.
C25_EquityCurveShape ==
    pc \in {"signal", "exits", "open", "close", "results", "done"} =>
        /\ Len(equity_curve) = 1 + Len(trades)
        /\ equity_curve[1] = [timestamp |-> isoformat(BarAt(bars, 0).timestamp),
                              balance |-> InitialBalance, pnl |-> 0]
        /\ \A k \in 1..Len(trades) :
              /\ equity_curve[k + 1].pnl = trades[k].pnl
              /\ equity_curve[k + 1].balance
                    = InitialBalance + SumPnl(SubSeq(trades, 1, k))
              /\ equity_curve[k + 1].timestamp = isoformat(trades[k].exit_time)
              /\ equity_curve[k].timestamp.iso <= equity_curve[k + 1].timestamp.iso
        /\ (pc = "done" /\ trades # << >>) => results.equity_curve = equity_curve

\* The run returned with a curve on which two points share a timestamp and
\* a later point follows them.
C25_Witness ==
    /\ pc = "done"
    /\ Len(bars) > 1
    /\ \E k \in 2..(Len(equity_curve) - 2) :
          /\ equity_curve[k].timestamp = equity_curve[k + 1].timestamp
          /\ equity_curve[k + 1].timestamp.iso < equity_curve[k + 2].timestamp.iso
          /\ equity_curve[k].pnl # equity_curve[k + 1].pnl

\* A run without trades returned: its curve is the initial point alone, and
\* the result does not carry the curve.
CurveOfRunWithoutTrades ==
    /\ pc = "done"
    /\ Len(bars) = MaxBars
    /\ trades = << >>
    /\ Len(equity_curve) = 1
    /\ "equity_curve" \notin DOMAIN results

\* The start of the period of T minutes a time falls in: the time cut to
\* its minute, then to the last multiple of T minutes since midnight.
Boundary(time, T) ==
    [day |-> time.day, minute |-> time.minute - (time.minute % T), second |-> 0]

\* The input rows (by index) that fall in the period starting at start.
Bucket(rows, T, start) ==
    {j \in 1..Len(rows) : Boundary(rows[j].time, T) = start}

SetMax(S) == CHOOSE x \in S : \A y \in S : y <= x
SetMin(S) == CHOOSE x \in S : \A y \in S : x <= y

RECURSIVE SetSum(_, _)
SetSum(S, f) ==
    IF S = {} THEN 0
    ELSE LET x == CHOOSE y \in S : TRUE IN f[x] + SetSum(S \ {x}, f)

C27_DefinedValues ==
    call.stage = "returned" =>
        /\ call.outcome.raised = None
        /\ \A a \in 1..Len(call.outcome.arrays) :
              \A k \in 1..Len(call.outcome.arrays[a]) :
                  call.outcome.arrays[a][k] # NaN

\* With a positive volume on the first bar every entry is defined.
DefinedWhenFirstBarTrades ==
    (call.stage = "returned" /\ call.bars[1].volume > 0) =>
        \A a \in 1..Len(call.outcome.arrays) :
            \A k \in 1..Len(call.outcome.arrays[a]) :
                call.outcome.arrays[a][k] # NaN

\* C28: in mode bot_indicators the two branches of a step finish in either
\* order; the combined signal is what the window and the configuration
\* determine, whichever finished first, and while the branches run the
\* positions, trades, balance, peak balance and max drawdown do not change.
C28_BranchOrder ==
    /\ [](pc = "exits" =>
            signal = generate_signals_parallel(mode, model, indicator_config,
                                               WindowBars(bars, i)))
    /\ [][pc = "gather" =>
            UNCHANGED << positions, trades, balance, peak_balance,
                         max_drawdown >>]_vars

\* The rule branch finished first and the combination is a trade signal.
C28_Witness ==
    /\ pc = "exits"
    /\ mode = "bot_indicators"
    /\ call.order = << "indicators", "bot" >>
    /\ signal.signal # "NEUTRAL"
    /\ Len(positions) > 0

\* The model branch finished first, with the same combination.
ModelBranchFirst ==
    /\ pc = "exits"
    /\ mode = "bot_indicators"
    /\ call.order = << "bot", "indicators" >>
    /\ signal.signal # "NEUTRAL"

\* C29: on a non-empty series of n bars run() evaluates the indices
\* window_size .. n-1 once each in ascending order (the loop body is entered
\* first at window_size and then only at the index after the one just
\* evaluated, and is left only past n-1), then closes the open positions,
\* and eventually returns a result.
C29_EvaluationOrder ==
    /\ [](pc \in {"signal", "exits", "open"} =>
            (WindowSize <= i /\ i < Len(bars)))
    /\ [][(pc # "signal" /\ pc' = "signal") =>
            \/ pc = "start" /\ i' = WindowSize
            \/ pc = "open" /\ i' = i + 1]_vars
    /\ [][(pc = "signal" \/ pc = "exits") => i' = i]_vars
    /\ [][(pc # "close" /\ pc' = "close") =>
            /\ i' >= Len(bars')
            /\ pc = "start" \/ (pc = "open" /\ i' = i + 1)]_vars
    /\ [][pc' = "results" => pc \in {"close", "results"}]_vars
    /\ [](pc = "done" =>
            /\ results # None
            /\ \A k \in 1..Len(positions) : positions[k].status # "OPEN")
    /\ (bars # << >>) ~> (pc = "done")

\* A run over more bars than the window returned after the forced close.
C29_Witness ==
    /\ pc = "done"
    /\ Len(bars) >= WindowSize + 3
    /\ i = Len(bars)
    /\ \E k \in 1..Len(trades) : trades[k].exit_reason = EndReason

\* A series no longer than the window: no bar is evaluated, the run returns.
ShortSeriesReturns ==
    (pc = "done" /\ Len(bars) <= WindowSize) => (i = WindowSize /\ trades = << >>)

\* C30: a trade closed by its stop has pnl = -(risk budget * stop
\* multiplier) and a trade closed by its target has pnl = +(risk budget *
\* stop multiplier * take-profit multiplier), whatever the bar did beyond
\* the level.
C30_ExitPnlFixed ==
    (conv.stage = "closed" /\ "exit_reason" \in DOMAIN conv) =>
        LET risk == conv.stop_loss_usd * conv.sl_multiplier
        IN  IF conv.exit_reason = "STOP_LOSS"
            THEN conv.pnl * FloatScale = -risk
            ELSE conv.pnl * FloatScale * FloatScale = risk * conv.tp_multiplier

\* The amounts are exact on a contract whose tick size is a power of two.
ExitPnlFixedOnDyadicTick ==
    (conv.stage = "closed" /\ "exit_reason" \in DOMAIN conv
     /\ conv.contract.dyadic) =>
        LET risk == conv.stop_loss_usd * conv.sl_multiplier
        IN  IF conv.exit_reason = "STOP_LOSS"
            THEN conv.pnl * FloatScale = -risk
            ELSE conv.pnl * FloatScale * FloatScale = risk * conv.tp_multiplier

\* A stop loses and a target wins on every contract.
StopLosesTargetWins ==
    (conv.stage = "closed" /\ "exit_reason" \in DOMAIN conv) =>
        IF conv.exit_reason = "STOP_LOSS" THEN conv.pnl < 0 ELSE conv.pnl > 0

\* The same in the run: every STOP_LOSS trade loses, every TAKE_PROFIT
\* trade wins.
StopLosesTargetWinsInRun ==
    \A k \in 1..Len(trades) :
        /\ trades[k].exit_reason = "STOP_LOSS" => trades[k].pnl < 0
        /\ trades[k].exit_reason = "TAKE_PROFIT" => trades[k].pnl > 0

\* C31: with 1 to window_size bars loaded, run() raises no error, evaluates
\* no bar and opens no position, and what it returns has total_trades = 0
\* and final_balance = the initial balance.
C31_ShortSeries ==
    (1 <= Len(bars) /\ Len(bars) <= WindowSize) =>
        /\ pc \in {"close", "results", "done"}
        /\ i = WindowSize
        /\ signal = None
        /\ positions = << >>
        /\ trades = << >>
        /\ pc = "done" =>
              /\ results.total_trades = 0
              /\ results.final_balance = InitialBalance

\* A run over exactly window_size bars returned.
C31_Witness ==
    /\ pc = "done"
    /\ Len(bars) = WindowSize
    /\ results.total_trades = 0

\* A run over a single bar returned.
SingleBarReturns == pc = "done" /\ Len(bars) = 1 /\ results # None

\* The levels of a position at the stop distance stop and the target
\* distance target from its entry, on the losing and the winning side.
LevelsAt(position, stop, target) ==
    /\ position.stop_loss
         = position.entry_price - SideSign(position.side) * stop
    /\ position.take_profit
         = position.entry_price + SideSign(position.side) * target

\* C32: a position opened in mode bot_only has its stop at the risk budget
\* times the sl_multiplier of the model's action and its target at that
\* distance times the action's tp_multiplier; a position opened in mode
\* bot_indicators has its stop at the plain risk budget and its target at
\* the take-profit ratio of the configuration, whatever the action says.
C32_MultipliersByMode ==
    \A k \in 1..Len(positions) :
        LET plain == (RiskBudget(bot_config) \div contract.tick_value)
                     * contract.tick_size
        IN  /\ mode = "bot_only" =>
                  LET stop == ((RiskBudget(bot_config) * model.sl_multiplier)
                               \div contract.tick_value) * contract.tick_size
                  IN  LevelsAt(positions[k], stop, stop * model.tp_multiplier)
            /\ mode = "bot_indicators" =>
                  LevelsAt(positions[k], plain,
                           plain * TakeProfitRatio(bot_config))

\* A position opened on the agreed signal of a model whose action asks for
\* another target than the configuration.
C32_Witness ==
    /\ mode = "bot_indicators"
    /\ positions # << >>
    /\ positions[1].signal_source = "BOT_AND_INDICATORS"
    /\ model.tp_multiplier # TakeProfitRatio(bot_config)

\* A position opened in mode bot_only with a stop multiplier other than 1.
ModelOnlyScalesStop ==
    /\ mode = "bot_only"
    /\ positions # << >>
    /\ model.sl_multiplier # 1
    /\ model.tp_multiplier # TakeProfitRatio(bot_config)

\* The counts and ranges of a result r for the trade log ts.
CountsConsistent(r, ts) ==
    /\ r.total_trades = Len(ts)
    /\ r.winning_trades + r.losing_trades <= r.total_trades
    /\ r.winning_trades
         = Cardinality({k \in 1..Len(ts) : ts[k].pnl > 0})
    /\ r.losing_trades
         = Cardinality({k \in 1..Len(ts) : ts[k].pnl < 0})
    /\ 0 <= r.win_rate.num /\ r.win_rate.num <= r.win_rate.den
    /\ r.gross_profit >= 0
    /\ r.gross_loss >= 0

\* C33: the result of a trade log has total_trades = the number of trades,
\* winning_trades + losing_trades <= total_trades (a trade with pnl 0 is in
\* neither), 0 <= win_rate <= 1, gross_profit >= 0, gross_loss >= 0 and
\* total_pnl = gross_profit - gross_loss.
C33_StatisticsConsistency ==
    conv.stage = "results" =>
        /\ CountsConsistent(conv.results, conv.trades)
        /\ conv.results.total_pnl
             = conv.results.gross_profit - conv.results.gross_loss

\* The same with the difference taken in floats, as Python would compare.
TotalIsFloatDifference ==
    conv.stage = "results" =>
        conv.results.total_pnl
          = FloatSub(conv.results.gross_profit, conv.results.gross_loss)

\* The counts and ranges hold on every contract.
CountsConsistentInFloats ==
    conv.stage = "results" => CountsConsistent(conv.results, conv.trades)

\* Everything holds on a contract whose tick size is a power of two.
StatisticsConsistentOnDyadicTick ==
    (conv.stage = "results" /\ conv.contract.dyadic) =>
        /\ CountsConsistent(conv.results, conv.trades)
        /\ conv.results.total_pnl
             = conv.results.gross_profit - conv.results.gross_loss

\* Everything holds in the run, whose amounts are whole numbers.
StatisticsConsistentInRun ==
    (pc = "done" /\ trades # << >>) =>
        /\ CountsConsistent(results, trades)
        /\ results.total_pnl = results.gross_profit - results.gross_loss

\* C34: after reset and any sequence of step calls the environment holds at
\* most max_positions positions; no trade closes the position in the step
\* that opened it; and a position whose stop and target conditions both
\* hold at the close is closed at its stop-loss price, as a stop.
C34_EnvGuardAndOrder ==
    /\ [](Len(call.positions) <= call.args.max_positions)
    /\ [](\A k \in 1..Len(call.trades_history) :
             call.trades_history[k].duration >= 1)
    /\ [][\A k \in 1..Len(call.positions) :
             LET pos == call.positions[k]
                 price == call.bars_data[call.current_step + 1].close
             IN  (HitStop(pos, price) /\ HitTarget(pos, price)) =>
                     \E t \in (Len(call.trades_history) + 1)
                                ..Len(call.trades_history') :
                         /\ call.trades_history'[t].entry_price = pos.entry_price
                         /\ call.trades_history'[t].side = pos.side
                         /\ call.trades_history'[t].exit_price = pos.stop_loss
                         /\ call.trades_history'[t].exit_reason = "Stop Loss"]_vars

\* A position with stop = target = entry was closed as a stop while the
\* environment was full, and a new one was opened in the same step.
C34_Witness ==
    /\ call.args.max_positions = 1
    /\ Len(call.positions) = 1
    /\ call.positions[1].entry_step = call.current_step - 1
    /\ \E k \in 1..Len(call.trades_history) :
          /\ call.trades_history[k].exit_reason = "Stop Loss"
          /\ call.trades_history[k].exit_price
               = call.trades_history[k].entry_price
          /\ call.trades_history[k].duration = 1

\* Two positions are held and a target was reached.
EnvFullAfterTarget ==
    /\ Len(call.positions) = 2
    /\ \E k \in 1..Len(call.trades_history) :
          call.trades_history[k].exit_reason = "Take Profit"

====
